---- MODULE Spec2Model ----
(***************************************************************************)
(* Model of llama_jni.cpp: the process-wide handle table g_contexts, its   *)
(* mutex, the handle counter, the primary LlamaNative interface            *)
(* (initModel / generate / freeModel), the LlamaInference compatibility    *)
(* interface built on top of it, and the stub intent classifier inside     *)
(* generate.                                                               *)
(*                                                                         *)
(* Every JNI entry point is executed by a caller thread.  A call is split  *)
(* at the points where other threads can interleave: the entry up to the   *)
(* first lock_guard (with new in initModel), the acquisition of            *)
(* g_contexts_mutex, the critical section together with the release of the *)
(* lock_guard, and what is executed after the release: the classification  *)
(* of generate, line 281 of nativeLoadModel, lines 305-309 of              *)
(* nativeGenerate, and the return to the caller.  A function whose         *)
(* lock_guard lives to its end releases the mutex in the destructor of the *)
(* guard and returns after that, so its return is a step of its own.  A    *)
(* thread that has called and waits for the mutex stands in front of the   *)
(* lock_guard.  The variable last shows a return in the state it leads to: *)
(* the call that returned and its value.                                   *)
(*                                                                         *)
(* Prompts are ASCII; jlong handles stay far below overflow because a run  *)
(* creates at most MaxInits contexts.                                      *)
(*                                                                         *)
(* Strings the code inspects or builds (prompts, paths, responses) are     *)
(* sequences of one-character strings; positions are 0-based as in         *)
(* std::string and                                                         *)
(* npos is -1, the two's-complement reading of size_t(-1), so that         *)
(* npos + 1 = 0 as in the unsigned arithmetic of the code.                 *)
(***************************************************************************)
EXTENDS Integers, Sequences, FiniteSets, TLC

(* ------------------------------ bounds -------------------------------- *)

\* caller threads
NumThreads == 2

\* contexts created (calls of new ModelContext) in one run
MaxInits == 2

\* fragments concatenated to build a prompt for the classifier
MaxFrags == 3

\* rounds of initModel/freeModel per thread in the stress scenario
StressRounds == 2

\* contexts created in one run of the fair-scheduling scenario
FairInits == 1

\* fragments concatenated to build a prompt with quoted text
MaxQuoteFrags == 5

Threads == 1..NumThreads

\* g_contexts_mutex is free
NoThread == 0

\* handle arguments a caller may pass: negative, 0, every handle that can be
\* issued, and one that never is
HandleArgs == (-1)..(MaxInits + 1)

\* a plain model path
Path_plain == <<"a",".","g","g","u","f">>

\* a model path with a double quote
Path_quote == <<"a","\"","b">>

\* the model paths callers pass
Paths == {Path_plain, Path_quote}

(* ------------------------ strings as char sequences -------------------- *)

npos == -1

UpperChars == <<"A","B","C","D","E","F","G","H","I","J","K","L","M",
                "N","O","P","Q","R","S","T","U","V","W","X","Y","Z">>

LowerChars == <<"a","b","c","d","e","f","g","h","i","j","k","l","m",
                "n","o","p","q","r","s","t","u","v","w","x","y","z">>

\* tolower(c) for an ASCII character
tolower(c) ==
    IF \E i \in DOMAIN UpperChars : UpperChars[i] = c
      THEN LowerChars[CHOOSE i \in DOMAIN UpperChars : UpperChars[i] = c]
      ELSE c

\* for (auto& c : lowerPrompt) c = tolower(c);
ToLowerString(s) == [i \in DOMAIN s |-> tolower(s[i])]

\* pat occurs in s at 0-based position i
MatchesAt(s, pat, i) ==
    /\ i >= 0
    /\ i + Len(pat) <= Len(s)
    /\ \A j \in 1..Len(pat) : s[i + j] = pat[j]

\* std::string::find(pat, pos): the first position >= pos where pat occurs,
\* npos when there is none
find(s, pat, pos) ==
    LET hits == {i \in pos..(Len(s) - Len(pat)) : MatchesAt(s, pat, i)}
    IN  IF hits = {} THEN npos
        ELSE CHOOSE i \in hits : \A k \in hits : i <= k

\* std::string::substr(pos, n) for pos <= size()
substr(s, pos, n) ==
    LET m == IF pos + n > Len(s) THEN Len(s) - pos ELSE n
    IN  [i \in 1..m |-> s[pos + i]]

contains(s, pat) == find(s, pat, 0) # npos

(* ------------------------- the stub classifier ------------------------ *)
\* the keywords of the if-chain, as character sequences
K_create == <<"c","r","e","a","t","e">>
K_goal == <<"g","o","a","l">>
K_add == <<"a","d","d">>
K_task == <<"t","a","s","k">>
K_list == <<"l","i","s","t">>
K_show == <<"s","h","o","w">>
K_help == <<"h","e","l","p">>
K_complete == <<"c","o","m","p","l","e","t","e">>
K_done == <<"d","o","n","e">>
K_finish == <<"f","i","n","i","s","h">>
K_delete == <<"d","e","l","e","t","e">>
K_remove == <<"r","e","m","o","v","e">>
K_progress == <<"p","r","o","g","r","e","s","s">>
K_how_am_i == <<"h","o","w"," ","a","m"," ","i">>
K_status == <<"s","t","a","t","u","s">>

\* the double-quote character searched by promptText.find('"')
Quote == <<"\"">>

\* the default titles of the three extracting rules
DefaultGoal == <<"N","e","w"," ","G","o","a","l">>
DefaultTask == <<"N","e","w"," ","T","a","s","k">>
DefaultComplete == <<"t","a","s","k">>

\* The quoted-name heuristic shared by the three extracting branches:
\*   quoteStart = promptText.find('"');
\*   quoteEnd   = promptText.find('"', quoteStart + 1);
\*   if (both # npos) name = promptText.substr(quoteStart + 1, quoteEnd - quoteStart - 1);
\* quoteStart + 1 is 0 when quoteStart is npos (unsigned wrap-around).
ExtractQuoted(promptText, dflt) ==
    LET quoteStart == find(promptText, Quote, 0)
        quoteEnd   == find(promptText, Quote, quoteStart + 1)
    IN  IF quoteStart # npos /\ quoteEnd # npos
          THEN substr(promptText, quoteStart + 1, quoteEnd - quoteStart - 1)
          ELSE dflt

\* The texts the code returns are built by concatenating string literals
\* and, in three branches, the extracted name as it is.

\* the fixed response of generate for a handle that is not in g_contexts (line 139)
ModelNotLoaded ==
    <<"{","\"","a","c","t","i","o","n","\"",":","\"","r","e","p","l","y","\"",
      ",","\"","m","e","s","s","a","g","e","\"",":","\"","E","r","r","o","r",
      ":"," ","M","o","d","e","l"," ","n","o","t"," ","l","o","a","d","e","d",
      "\"",",","\"","d","a","t","a","\"",":","{","}","}">>

\* the fixed response of nativeGenerate for handle == 0 (line 306)
NoModelLoaded ==
    <<"{","\"","a","c","t","i","o","n","\"",":","\"","r","e","p","l","y","\"",
      ",","\"","m","e","s","s","a","g","e","\"",":","\"","N","o"," ","m","o",
      "d","e","l"," ","l","o","a","d","e","d","."," ","P","l","e","a","s","e",
      " ","d","o","w","n","l","o","a","d"," ","a"," ","m","o","d","e","l"," ",
      "f","i","r","s","t",".","\"",",","\"","d","a","t","a","\"",":","{","}",
      "}">>

\* the literals of the create_goal response (lines 167-169)
CreateGoal_Head ==
    <<"{","\"","a","c","t","i","o","n","\"",":","\"","c","r","e","a","t","e",
      "_","g","o","a","l","\"",",","\"","m","e","s","s","a","g","e","\"",":",
      "\"","I","'","l","l"," ","c","r","e","a","t","e"," ","a"," ","g","o",
      "a","l"," ","f","o","r"," ">>

\* second literal of the create_goal response
CreateGoal_Data ==
    <<"\"",",","\"","d","a","t","a","\"",":","{","\"","g","o","a","l","T","i",
      "t","l","e","\"",":","\"">>

\* third literal of the create_goal response
CreateGoal_Tail ==
    <<"\"",",","\"","d","u","r","a","t","i","o","n","M","o","n","t","h","s",
      "\"",":","3",",","\"","d","a","i","l","y","M","i","n","u","t","e","s",
      "\"",":","3","0","}","}">>

\* the literals of the create_task response (lines 180-182)
CreateTask_Head ==
    <<"{","\"","a","c","t","i","o","n","\"",":","\"","c","r","e","a","t","e",
      "_","t","a","s","k","\"",",","\"","m","e","s","s","a","g","e","\"",":",
      "\"","I","'","l","l"," ","a","d","d"," ","t","h","e"," ","t","a","s",
      "k",":"," ">>

\* second literal of the create_task response
CreateTask_Data ==
    <<"\"",",","\"","d","a","t","a","\"",":","{","\"","t","a","s","k","T","i",
      "t","l","e","\"",":","\"">>

\* third literal of the create_task response
CreateTask_Tail ==
    <<"\"",",","\"","d","u","e","D","a","t","e","\"",":","\"","t","o","d","a",
      "y","\"",",","\"","m","i","n","u","t","e","s","\"",":","3","0","}","}">>

\* the response of the list / show branch (line 186)
ListReply ==
    <<"{","\"","a","c","t","i","o","n","\"",":","\"","r","e","p","l","y","\"",
      ",","\"","m","e","s","s","a","g","e","\"",":","\"","H","e","r","e"," ",
      "a","r","e"," ","y","o","u","r"," ","c","u","r","r","e","n","t"," ","i",
      "t","e","m","s","."," ","Y","o","u"," ","c","a","n"," ","a","s","k"," ",
      "m","e"," ","t","o"," ","c","r","e","a","t","e"," ","g","o","a","l","s",
      " ","o","r"," ","a","d","d"," ","t","a","s","k","s","!","\"",",","\"",
      "d","a","t","a","\"",":","{","}","}">>

\* the response of the help branch (line 189)
HelpReply ==
    <<"{","\"","a","c","t","i","o","n","\"",":","\"","r","e","p","l","y","\"",
      ",","\"","m","e","s","s","a","g","e","\"",":","\"","I"," ","c","a","n",
      " ","h","e","l","p"," ","y","o","u"," ","m","a","n","a","g","e"," ","g",
      "o","a","l","s"," ","a","n","d"," ","t","a","s","k","s","!"," ","T","r",
      "y"," ","s","a","y","i","n","g",":"," ","'","C","r","e","a","t","e"," ",
      "a"," ","g","o","a","l"," ","t","o"," ","l","e","a","r","n"," ","P","y",
      "t","h","o","n","'"," ","o","r"," ","'","A","d","d"," ","t","a","s","k",
      " ","r","e","v","i","e","w"," ","n","o","t","e","s"," ","t","o","m","o",
      "r","r","o","w","'","\"",",","\"","d","a","t","a","\"",":","{","}","}">>

\* the literals of the complete_task response (line 201)
CompleteTask_Head ==
    <<"{","\"","a","c","t","i","o","n","\"",":","\"","c","o","m","p","l","e",
      "t","e","_","t","a","s","k","\"",",","\"","m","e","s","s","a","g","e",
      "\"",":","\"","G","r","e","a","t"," ","j","o","b","!"," ","I","'","l",
      "l"," ","m","a","r","k"," ","t","h","a","t"," ","a","s"," ","c","o","m",
      "p","l","e","t","e",".","\"",",","\"","d","a","t","a","\"",":","{","\"",
      "t","a","s","k","T","i","t","l","e","\"",":","\"">>

\* second literal of the complete_task response
CompleteTask_Tail ==
    <<"\"","}","}">>

\* the response of the delete / remove branch (line 205)
DeleteReply ==
    <<"{","\"","a","c","t","i","o","n","\"",":","\"","r","e","p","l","y","\"",
      ",","\"","m","e","s","s","a","g","e","\"",":","\"","T","o"," ","d","e",
      "l","e","t","e"," ","a","n"," ","i","t","e","m",","," ","p","l","e","a",
      "s","e"," ","s","p","e","c","i","f","y"," ","e","x","a","c","t","l","y",
      " ","w","h","i","c","h"," ","g","o","a","l"," ","o","r"," ","t","a","s",
      "k"," ","y","o","u"," ","w","a","n","t"," ","t","o"," ","r","e","m","o",
      "v","e",".","\"",",","\"","d","a","t","a","\"",":","{","}","}">>

\* the response of the progress branch (line 210)
ProgressReply ==
    <<"{","\"","a","c","t","i","o","n","\"",":","\"","s","h","o","w","_","p",
      "r","o","g","r","e","s","s","\"",",","\"","m","e","s","s","a","g","e",
      "\"",":","\"","L","e","t"," ","m","e"," ","s","h","o","w"," ","y","o",
      "u"," ","y","o","u","r"," ","p","r","o","g","r","e","s","s"," ","s","u",
      "m","m","a","r","y","!","\"",",","\"","d","a","t","a","\"",":","{","}",
      "}">>

\* the response of the final else (line 214)
DefaultReply ==
    <<"{","\"","a","c","t","i","o","n","\"",":","\"","r","e","p","l","y","\"",
      ",","\"","m","e","s","s","a","g","e","\"",":","\"","I","'","m"," ","y",
      "o","u","r"," ","l","o","c","a","l"," ","A","I"," ","a","s","s","i","s",
      "t","a","n","t"," ","r","u","n","n","i","n","g"," ","o","n","-","d","e",
      "v","i","c","e","!"," ","I"," ","c","a","n"," ","h","e","l","p"," ","y",
      "o","u"," ","c","r","e","a","t","e"," ","g","o","a","l","s",","," ","a",
      "d","d"," ","t","a","s","k","s",","," ","a","n","d"," ","t","r","a","c",
      "k"," ","y","o","u","r"," ","p","r","o","g","r","e","s","s","."," ","W",
      "h","a","t"," ","w","o","u","l","d"," ","y","o","u"," ","l","i","k","e",
      " ","t","o"," ","d","o","?","\"",",","\"","d","a","t","a","\"",":","{",
      "}","}">>

\* the conditions of the if / else-if chain, in source order
Rule1(lowerPrompt) == contains(lowerPrompt, K_create) /\ contains(lowerPrompt, K_goal)

Rule2(lowerPrompt) == contains(lowerPrompt, K_add) /\ contains(lowerPrompt, K_task)

\* mutant: the third branch tests "list" only
Rule3_ListOnly(lowerPrompt) == contains(lowerPrompt, K_list)

Rule3(lowerPrompt) == contains(lowerPrompt, K_list) \/ contains(lowerPrompt, K_show)

Rule4(lowerPrompt) == contains(lowerPrompt, K_help)

Rule5(lowerPrompt) ==
    \/ contains(lowerPrompt, K_complete)
    \/ contains(lowerPrompt, K_done)
    \/ contains(lowerPrompt, K_finish)

Rule6(lowerPrompt) == contains(lowerPrompt, K_delete) \/ contains(lowerPrompt, K_remove)

Rule7(lowerPrompt) ==
    \/ contains(lowerPrompt, K_progress)
    \/ contains(lowerPrompt, K_how_am_i)
    \/ contains(lowerPrompt, K_status)

\* The stub body of generate after the handle check (lines 151-218): the
\* keywords are searched in the lowercased copy, the quoted name in the
\* original prompt; the value is the text of response.
Classify(promptText) ==
    LET lowerPrompt == ToLowerString(promptText)
    IN  IF Rule1(lowerPrompt) THEN
          LET goalName == ExtractQuoted(promptText, DefaultGoal)
          IN  CreateGoal_Head \o goalName \o CreateGoal_Data \o goalName
                \o CreateGoal_Tail
        ELSE IF Rule2(lowerPrompt) THEN
          LET taskName == ExtractQuoted(promptText, DefaultTask)
          IN  CreateTask_Head \o taskName \o CreateTask_Data \o taskName
                \o CreateTask_Tail
        ELSE IF Rule3(lowerPrompt) THEN ListReply
        ELSE IF Rule4(lowerPrompt) THEN HelpReply
        ELSE IF Rule5(lowerPrompt) THEN
          LET taskName == ExtractQuoted(promptText, DefaultComplete)
          IN  CompleteTask_Head \o taskName \o CompleteTask_Tail
        ELSE IF Rule6(lowerPrompt) THEN DeleteReply
        ELSE IF Rule7(lowerPrompt) THEN ProgressReply
        ELSE DefaultReply

(* ------------------------------ the state ----------------------------- *)

VARIABLES
    g_contexts,        \* the handle table: handle -> ModelContext*
    g_next_handle,     \* the handle counter
    g_contexts_mutex,  \* the thread holding the mutex, NoThread when free
    heap,              \* every ModelContext ever created by new, by address
    pc,                \* per thread: where it is in the call it executes
    call,              \* per thread: the JNI entry it executes, with its arguments
    ctx,               \* per thread: the local ModelContext* ctx of initModel
    ctxPtr,            \* per thread: the handle generate / freeModel look up
    last,              \* the call that returned in the step taken last, with the
                       \* value it returned; NoReturn when that step was no return
    issued,            \* history: the handles initModel took, in allocation order
    removed,           \* history: handle -> the function that erased it
    script             \* per thread: the caller's own progress (stress scenario)

progvars == <<g_contexts, g_next_handle, g_contexts_mutex, heap, pc, call, ctx,
              ctxPtr, last, issued, removed>>

vars == <<progvars, script>>

registry == <<g_contexts, g_next_handle, heap>>

\* no ModelContext* held
NullCtx == 0

\* the return value of a void function
Void == "void"

\* ModelContext(const std::string& path); deletes counts the delete
\* expressions applied to the object
ModelContext(path) ==
    [modelPath |-> path, isLoaded |-> TRUE, contextSize |-> 2048,
     numThreads |-> 4, deletes |-> 0]

\* delete p: one more delete of the object at address p
Delete(h, p) == [h EXCEPT ![p].deletes = @ + 1]

Range(f) == {f[x] : x \in DOMAIN f}

Min(S) == CHOOSE x \in S : \A y \in S : x <= y

\* The record of a call in progress.  name, handle, prompt and path are the
\* entry point and its arguments; the other fields are observations taken
\* when the call starts or while it runs, used only to state properties:
\*   issuedAtCall  - the handle argument had been returned by initModel
\*   removedAtCall - the function that had erased the handle argument, "" if none
\*   classified    - the stub classification ran
\*   smallest      - the smallest handle in the table when begin() was read
\*   present       - the handles in the table when the call read it (begin()
\*                   or empty())
\*   delivered     - invocations of the callback argument
\* result holds the value a function has computed under the mutex and
\* returns after the release: <<>> before it is computed, <<value>> after.
NewCall(name, handle, prompt, path) ==
    [name |-> name, handle |-> handle, prompt |-> prompt, path |-> path,
     issuedAtCall |-> handle \in Range(issued),
     removedAtCall |-> IF handle \in DOMAIN removed THEN removed[handle] ELSE "",
     classified |-> FALSE,
     smallest |-> 0,
     present |-> {},
     delivered |-> 0,
     result |-> <<>>]

NoCall == [name |-> "none", handle |-> 0, prompt |-> <<>>, path |-> <<>>,
           issuedAtCall |-> FALSE, removedAtCall |-> "", classified |-> FALSE,
           smallest |-> 0, present |-> {}, delivered |-> 0, result |-> <<>>]

\* the record of a call that returned, to Java or to the entry point that
\* made it: the call and the value returned
Returned(c, value) == [call |-> c, ret |-> value]

\* no call returned
NoReturn == Returned(NoCall, Void)

Init ==
    /\ g_contexts = [h \in {} |-> NullCtx]
    /\ g_next_handle = 1
    /\ g_contexts_mutex = NoThread
    /\ heap = <<>>
    /\ pc = [t \in Threads |-> "idle"]
    /\ call = [t \in Threads |-> NoCall]
    /\ ctx = [t \in Threads |-> NullCtx]
    /\ ctxPtr = [t \in Threads |-> 0]
    /\ last = NoReturn
    /\ issued = <<>>
    /\ removed = [h \in {} |-> ""]
    /\ script = [t \in Threads |-> [round |-> 0, handle |-> 0]]

\* std::lock_guard<std::mutex> lock(g_contexts_mutex): blocks until the
\* mutex is free.  Locking a std::mutex the thread already owns never
\* succeeds either.
Lock(t) ==
    /\ g_contexts_mutex = NoThread
    /\ g_contexts_mutex' = t

\* mutant: the mutex stays locked
Unlock_Never(t) ==
    /\ g_contexts_mutex = t
    /\ g_contexts_mutex' = t

\* the lock_guard goes out of scope
Unlock(t) ==
    /\ g_contexts_mutex = t
    /\ g_contexts_mutex' = NoThread

\* the call of thread t returns value: its locals are gone
Return(t, c, value) ==
    /\ last' = Returned(c, value)
    /\ pc' = [pc EXCEPT ![t] = "idle"]
    /\ call' = [call EXCEPT ![t] = NoCall]
    /\ ctx' = [ctx EXCEPT ![t] = NullCtx]
    /\ ctxPtr' = [ctxPtr EXCEPT ![t] = 0]

\* thread t goes on to position to of the call it executes
Goto(t, to) == pc' = [pc EXCEPT ![t] = to]

(* --------------------- calling and taking the mutex ------------------- *)

\* the position in front of the lock_guard an entry point starts with
EntryLock(name) ==
    CASE name = "generate" -> "generate_lock"
      [] name = "freeModel" -> "freeModel_lock"
      [] name \in {"nativeGenerate", "nativeGenerateWithCallback"} ->
           "nativeGenerate_lock"
      [] name \in {"nativeUnloadModel", "nativeCleanup"} ->
           "nativeUnloadModel_lock"
      [] name = "nativeIsModelLoaded" -> "nativeIsModelLoaded_lock"
      [] name = "nativeGetModelInfo" -> "nativeGetModelInfo_lock"

\* the critical section behind each of these lock_guards
EntryLocks ==
    [generate_lock |-> "generate_cs",
     freeModel_lock |-> "freeModel_cs",
     nativeGenerate_lock |-> "nativeGenerate_cs",
     nativeUnloadModel_lock |-> "nativeUnloadModel_cs",
     nativeIsModelLoaded_lock |-> "nativeIsModelLoaded_cs",
     nativeGetModelInfo_lock |-> "nativeGetModelInfo_cs"]

\* thread t calls an entry point that starts with its lock_guard, with
\* handle h and prompt: the arguments are read and the call is logged; the
\* thread stands in front of the lock_guard
Call(t, name, h, prompt) ==
    /\ pc[t] = "idle"
    /\ call' = [call EXCEPT ![t] = NewCall(name, h, prompt, <<>>)]
    /\ ctxPtr' = [ctxPtr EXCEPT ![t] = h]
    /\ Goto(t, EntryLock(name))
    /\ last' = NoReturn
    /\ UNCHANGED <<g_contexts, g_next_handle, g_contexts_mutex, heap, ctx,
                   issued, removed>>

\* the lock_guard an entry point starts with
LockGuard(t) ==
    /\ pc[t] \in DOMAIN EntryLocks
    /\ Lock(t)
    /\ Goto(t, EntryLocks[pc[t]])
    /\ last' = NoReturn
    /\ UNCHANGED <<g_contexts, g_next_handle, heap, call, ctx, ctxPtr, issued,
                   removed>>

(* ------------------------------ initModel ----------------------------- *)

\* mutant: the smallest handle not in the table is handed out again
allocateHandle_Reuse ==
    LET v == CHOOSE h \in 1..g_next_handle :
                 /\ h \notin DOMAIN g_contexts
                 /\ \A k \in 1..(h - 1) : k \in DOMAIN g_contexts
    IN  [value |-> v,
         next |-> IF v = g_next_handle THEN g_next_handle + 1 ELSE g_next_handle]

\* mutant: return ++g_next_handle
allocateHandle_PreIncrement ==
    [value |-> g_next_handle + 1, next |-> g_next_handle + 1]

\* mutant: return g_next_handle
allocateHandle_NoIncrement == [value |-> g_next_handle, next |-> g_next_handle]

\* static jlong allocateHandle() { return g_next_handle++; }
allocateHandle == [value |-> g_next_handle, next |-> g_next_handle + 1]

\* mutant: the context is not inserted
Insert_Nothing(table, handle, p) == table

\* mutant: the table is replaced by the new entry
Insert_Clobber(table, handle, p) == [h \in {handle} |-> p]

\* g_contexts[handle] = ctx
Insert(table, handle, p) ==
    [h \in DOMAIN table \cup {handle} |-> IF h = handle THEN p ELSE table[h]]

\* entry of initModel up to the lock: new ModelContext(pathStr)
initModel_new(t, name, path) ==
    /\ pc[t] = "idle"
    /\ heap' = Append(heap, ModelContext(path))
    /\ ctx' = [ctx EXCEPT ![t] = Len(heap) + 1]
    /\ call' = [call EXCEPT ![t] = NewCall(name, 0, <<>>, path)]
    /\ Goto(t, "initModel_lock")
    /\ last' = NoReturn
    /\ UNCHANGED <<g_contexts, g_next_handle, g_contexts_mutex, ctxPtr,
                   issued, removed>>

initModel_lock(t) ==
    /\ pc[t] = "initModel_lock"
    /\ Lock(t)
    /\ Goto(t, "initModel_cs")
    /\ last' = NoReturn
    /\ UNCHANGED <<g_contexts, g_next_handle, heap, call, ctx, ctxPtr, issued,
                   removed>>

\* handle = allocateHandle(); g_contexts[handle] = ctx; the return value is
\* handle (call[t].handle is the local handle); the lock_guard is destroyed
\* and releases the mutex
initModel_cs(t) ==
    /\ pc[t] = "initModel_cs"
    /\ LET handle == allocateHandle.value
       IN  /\ g_next_handle' = allocateHandle.next
           /\ g_contexts' = Insert(g_contexts, handle, ctx[t])
           /\ issued' = Append(issued, handle)
           /\ call' = [call EXCEPT ![t].handle = handle]
    /\ Unlock(t)
    /\ Goto(t, "initModel_ret")
    /\ last' = NoReturn
    /\ UNCHANGED <<heap, ctx, ctxPtr, removed>>

\* initModel returns handle, after the release: to Java when it was called
\* directly, to nativeLoadModel otherwise, which goes on to line 281 with
\* the value in its local handle
initModel_ret(t) ==
    /\ pc[t] = "initModel_ret"
    /\ IF call[t].name = "nativeLoadModel"
         THEN /\ last' = Returned([call[t] EXCEPT !.name = "initModel"],
                                  call[t].handle)
              /\ ctx' = [ctx EXCEPT ![t] = NullCtx]
              /\ Goto(t, "nativeLoadModel_ret")
              /\ UNCHANGED <<call, ctxPtr>>
         ELSE Return(t, call[t], call[t].handle)
    /\ UNCHANGED <<g_contexts, g_next_handle, g_contexts_mutex, heap, issued,
                   removed>>

\* handle != 0 ? JNI_TRUE : JNI_FALSE
InitResult(handle) == handle # 0

\* line 281 of nativeLoadModel, after initModel has returned
nativeLoadModel_ret(t) ==
    /\ pc[t] = "nativeLoadModel_ret"
    /\ Return(t, call[t], InitResult(call[t].handle))
    /\ UNCHANGED <<g_contexts, g_next_handle, g_contexts_mutex, heap, issued,
                   removed>>

\* Java_com_example_todoapp_llm_LlamaNative_initModel; a run creates at
\* most MaxInits contexts
LlamaNative_initModel(t) ==
    \/ /\ Len(heap) < MaxInits
       /\ \E path \in Paths : initModel_new(t, "initModel", path)
    \/ /\ call[t].name = "initModel"
       /\ (initModel_lock(t) \/ initModel_cs(t) \/ initModel_ret(t))

\* Java_com_example_todoapp_llm_LlamaInference_nativeLoadModel: forwards to
\* initModel; nThreads and nCtx are not used
LlamaInference_nativeLoadModel(t) ==
    \/ /\ Len(heap) < MaxInits
       /\ \E path \in Paths, nThreads \in {1, 4} :
             initModel_new(t, "nativeLoadModel", path)
    \/ /\ call[t].name = "nativeLoadModel"
       /\ \/ initModel_lock(t)
          \/ initModel_cs(t)
          \/ initModel_ret(t)
          \/ nativeLoadModel_ret(t)

(* ------------------------------ generate ------------------------------ *)

\* the prompt callers pass in the registry scenarios
P_my_status == <<"m","y"," ","s","t","a","t","u","s">>

Prompts == {P_my_status}

\* the lock_guard of the block "Check if context exists" when generate is
\* called by nativeGenerate, which happens when the handle nativeGenerate
\* read is not 0
generate_lock_nested(t) ==
    /\ pc[t] = "nativeGenerate_handle"
    /\ call[t].handle # 0
    /\ Lock(t)
    /\ Goto(t, "generate_cs")
    /\ last' = NoReturn
    /\ UNCHANGED <<g_contexts, g_next_handle, heap, call, ctx, ctxPtr, issued,
                   removed>>

\* mutant: every handle passes the check
NotFound_Never(table, h) == FALSE

\* mutant: handle 0 passes the check
NotFound_ZeroValid(table, h) == h \notin DOMAIN table /\ h # 0

\* g_contexts.find(ctxPtr) == g_contexts.end()
NotFound(table, h) == h \notin DOMAIN table

\* the block "Check if context exists": either the fixed response is the
\* return value or the block is left; both release the lock
generate_cs(t) ==
    /\ pc[t] = "generate_cs"
    /\ IF NotFound(g_contexts, ctxPtr[t])
         THEN Goto(t, "generate_ret")
         ELSE Goto(t, "generate_classify")
    /\ Unlock(t)
    /\ last' = NoReturn
    /\ UNCHANGED <<g_contexts, g_next_handle, heap, call, ctx, ctxPtr, issued,
                   removed>>

\* generate returns the fixed response of line 139, after the release
generate_ret(t) ==
    /\ pc[t] = "generate_ret"
    /\ Return(t, call[t], ModelNotLoaded)
    /\ UNCHANGED <<g_contexts, g_next_handle, g_contexts_mutex, heap, issued,
                   removed>>

\* the stub classification, outside the lock, and the return of its response
generate_classify(t) ==
    /\ pc[t] = "generate_classify"
    /\ Return(t, [call[t] EXCEPT !.classified = TRUE], Classify(call[t].prompt))
    /\ UNCHANGED <<g_contexts, g_next_handle, g_contexts_mutex, heap, issued,
                   removed>>

\* Java_com_example_todoapp_llm_LlamaNative_generate
LlamaNative_generate(t) ==
    \/ \E h \in HandleArgs, prompt \in Prompts :
          Call(t, "generate", h, prompt)
    \/ /\ call[t].name = "generate"
       /\ \/ LockGuard(t)
          \/ generate_cs(t)
          \/ generate_ret(t)
          \/ generate_classify(t)

(* ------------------------------ freeModel ----------------------------- *)

\* mutant: the entry stays in the table
Erase_Keep(table, h) == table

\* mutant: erase empties the table
Erase_All(table, h) == [x \in {} |-> NullCtx]

\* g_contexts.erase(it)
Erase(table, h) == [x \in DOMAIN table \ {h} |-> table[x]]

\* the history of erased handles, extended by the handles in hs
Removed(hs, by) ==
    [h \in DOMAIN removed \cup hs |-> IF h \in hs THEN by ELSE removed[h]]

\* it = g_contexts.find(ctxPtr); it != g_contexts.end()
Found(table, h) == h \in DOMAIN table

\* if found: delete it->second; g_contexts.erase(it); under the lock, which
\* the lock_guard releases at the end of the function
freeModel_cs(t) ==
    /\ pc[t] = "freeModel_cs"
    /\ IF Found(g_contexts, ctxPtr[t])
         THEN /\ heap' = Delete(heap, g_contexts[ctxPtr[t]])
              /\ g_contexts' = Erase(g_contexts, ctxPtr[t])
              /\ removed' = Removed({ctxPtr[t]}, "freeModel")
         ELSE UNCHANGED <<heap, g_contexts, removed>>
    /\ Unlock(t)
    /\ Goto(t, "freeModel_ret")
    /\ last' = NoReturn
    /\ UNCHANGED <<g_next_handle, call, ctx, ctxPtr, issued>>

\* freeModel returns, after the release
freeModel_ret(t) ==
    /\ pc[t] = "freeModel_ret"
    /\ Return(t, call[t], Void)
    /\ UNCHANGED <<g_contexts, g_next_handle, g_contexts_mutex, heap, issued,
                   removed>>

\* Java_com_example_todoapp_llm_LlamaNative_freeModel
LlamaNative_freeModel(t) ==
    \/ \E h \in HandleArgs : Call(t, "freeModel", h, <<>>)
    \/ /\ call[t].name = "freeModel"
       /\ (LockGuard(t) \/ freeModel_cs(t) \/ freeModel_ret(t))

(* ------------------- LlamaInference (compatibility) ------------------- *)

\* an entry point that only returns a constant
Constant(t, name, value) ==
    /\ pc[t] = "idle"
    /\ last' = Returned(NewCall(name, 0, <<>>, <<>>), value)
    /\ UNCHANGED <<g_contexts, g_next_handle, g_contexts_mutex, heap, pc, call,
                   ctx, ctxPtr, issued, removed>>

\* Java_com_example_todoapp_llm_LlamaInference_nativeInit: return JNI_TRUE
LlamaInference_nativeInit(t) == Constant(t, "nativeInit", TRUE)

\* mutant: the current handle is the counter value, which is no key
Begin_Counter(table) == {g_next_handle}

\* g_contexts.begin(): the iteration order of std::unordered_map is
\* unspecified, so the first element can be any element of the table
Begin(table) == DOMAIN table

\* the first block of nativeGenerate: handle = 0;
\* if (!g_contexts.empty()) handle = g_contexts.begin()->first;
\* the block ends and the mutex is released (line 303)
nativeGenerate_cs(t) ==
    /\ pc[t] = "nativeGenerate_cs"
    /\ IF DOMAIN g_contexts = {}
         THEN UNCHANGED <<call, ctxPtr>>
         ELSE \E handle \in Begin(g_contexts) :
                /\ ctxPtr' = [ctxPtr EXCEPT ![t] = handle]
                /\ call' = [call EXCEPT ![t].handle = handle,
                                        ![t].smallest = Min(DOMAIN g_contexts),
                                        ![t].present = DOMAIN g_contexts]
    /\ Goto(t, "nativeGenerate_handle")
    /\ Unlock(t)
    /\ last' = NoReturn
    /\ UNCHANGED <<g_contexts, g_next_handle, heap, ctx, issued, removed>>

\* if (handle == 0) return the fixed response (lines 305-307), without the
\* mutex; otherwise generate is called (generate_lock_nested)
nativeGenerate_ret(t) ==
    /\ pc[t] = "nativeGenerate_handle"
    /\ call[t].handle = 0
    /\ Return(t, call[t], NoModelLoaded)
    /\ UNCHANGED <<g_contexts, g_next_handle, g_contexts_mutex, heap, issued,
                   removed>>

\* Java_com_example_todoapp_llm_LlamaInference_nativeGenerate; temperature
\* and topP are not used
LlamaInference_nativeGenerate(t) ==
    \/ \E prompt \in Prompts : Call(t, "nativeGenerate", 0, prompt)
    \/ /\ call[t].name = "nativeGenerate"
       /\ \/ LockGuard(t)
          \/ nativeGenerate_cs(t)
          \/ nativeGenerate_ret(t)
          \/ generate_lock_nested(t)
          \/ generate_cs(t)
          \/ generate_ret(t)
          \/ generate_classify(t)

\* Java_com_example_todoapp_llm_LlamaInference_nativeGenerateWithCallback:
\* calls nativeGenerate with topP = 0.9f; callback is not used
LlamaInference_nativeGenerateWithCallback(t) ==
    \/ \E prompt \in Prompts : Call(t, "nativeGenerateWithCallback", 0, prompt)
    \/ /\ call[t].name = "nativeGenerateWithCallback"
       /\ \/ LockGuard(t)
          \/ nativeGenerate_cs(t)
          \/ nativeGenerate_ret(t)
          \/ generate_lock_nested(t)
          \/ generate_cs(t)
          \/ generate_ret(t)
          \/ generate_classify(t)

\* mutant: every context ever created is deleted, registered or not
DeleteAll_Every(h, table) == [p \in DOMAIN h |-> [h[p] EXCEPT !.deletes = @ + 1]]

\* for (auto& pair : g_contexts) delete pair.second;
DeleteAll(h, table) ==
    [p \in DOMAIN h |->
        [h[p] EXCEPT !.deletes = @ + Cardinality({x \in DOMAIN table : table[x] = p})]]

\* mutant: the table is not cleared
Clear_Nothing(table) == table

\* g_contexts.clear()
Clear(table) == [x \in {} |-> NullCtx]

\* the loop of deletes, then clear, under the lock, which the lock_guard
\* releases at the end of the function; present notes the handles the loop
\* went through
nativeUnloadModel_cs(t) ==
    /\ pc[t] = "nativeUnloadModel_cs"
    /\ heap' = DeleteAll(heap, g_contexts)
    /\ g_contexts' = Clear(g_contexts)
    /\ removed' = Removed(DOMAIN g_contexts, "nativeUnloadModel")
    /\ call' = [call EXCEPT ![t].present = DOMAIN g_contexts]
    /\ Unlock(t)
    /\ Goto(t, "nativeUnloadModel_ret")
    /\ last' = NoReturn
    /\ UNCHANGED <<g_next_handle, ctx, ctxPtr, issued>>

\* nativeUnloadModel returns, after the release: to Java, or to
\* nativeCleanup, which returns in turn
nativeUnloadModel_ret(t) ==
    /\ pc[t] = "nativeUnloadModel_ret"
    /\ Return(t, call[t], Void)
    /\ UNCHANGED <<g_contexts, g_next_handle, g_contexts_mutex, heap, issued,
                   removed>>

\* Java_com_example_todoapp_llm_LlamaInference_nativeUnloadModel
LlamaInference_nativeUnloadModel(t) ==
    \/ Call(t, "nativeUnloadModel", 0, <<>>)
    \/ /\ call[t].name = "nativeUnloadModel"
       /\ (LockGuard(t) \/ nativeUnloadModel_cs(t) \/ nativeUnloadModel_ret(t))

\* Java_com_example_todoapp_llm_LlamaInference_nativeCleanup: calls
\* nativeUnloadModel
LlamaInference_nativeCleanup(t) ==
    \/ Call(t, "nativeCleanup", 0, <<>>)
    \/ /\ call[t].name = "nativeCleanup"
       /\ (LockGuard(t) \/ nativeUnloadModel_cs(t) \/ nativeUnloadModel_ret(t))

\* mutant: true once a model has ever been loaded
IsModelLoaded_Sticky(table) == g_next_handle > 1

\* !g_contexts.empty() ? JNI_TRUE : JNI_FALSE
IsModelLoaded(table) == DOMAIN table # {}

\* the value is computed under the lock, which the lock_guard releases at
\* the end of the function
nativeIsModelLoaded_cs(t) ==
    /\ pc[t] = "nativeIsModelLoaded_cs"
    /\ call' = [call EXCEPT ![t].result = <<IsModelLoaded(g_contexts)>>,
                            ![t].present = DOMAIN g_contexts]
    /\ Unlock(t)
    /\ Goto(t, "nativeIsModelLoaded_ret")
    /\ last' = NoReturn
    /\ UNCHANGED <<g_contexts, g_next_handle, heap, ctx, ctxPtr, issued,
                   removed>>

\* nativeIsModelLoaded returns the value, after the release
nativeIsModelLoaded_ret(t) ==
    /\ pc[t] = "nativeIsModelLoaded_ret"
    /\ Return(t, call[t], call[t].result[1])
    /\ UNCHANGED <<g_contexts, g_next_handle, g_contexts_mutex, heap, issued,
                   removed>>

\* Java_com_example_todoapp_llm_LlamaInference_nativeIsModelLoaded
LlamaInference_nativeIsModelLoaded(t) ==
    \/ Call(t, "nativeIsModelLoaded", 0, <<>>)
    \/ /\ call[t].name = "nativeIsModelLoaded"
       /\ \/ LockGuard(t)
          \/ nativeIsModelLoaded_cs(t)
          \/ nativeIsModelLoaded_ret(t)

\* what reading *p can yield: the object while it is alive, anything of its
\* type once it has been deleted
Deref(p) ==
    IF heap[p].deletes = 0 THEN {heap[p]}
    ELSE {[heap[p] EXCEPT !.modelPath = path] : path \in Paths \cup {<<>>}}

\* the literals of the model info (lines 383-385)
ModelInfo_Head ==
    <<"{","\"","s","t","a","t","u","s","\"",":","\"","l","o","a","d","e","d",
      "\"",",","\"","p","a","t","h","\"",":","\"">>

\* second literal of the model info
ModelInfo_ContextSize ==
    <<"\"",",","\"","c","o","n","t","e","x","t","S","i","z","e","\"",":">>

\* third literal of the model info
ModelInfo_Threads ==
    <<",","\"","t","h","r","e","a","d","s","\"",":">>

\* last literal of the model info
ModelInfo_Tail ==
    <<"}">>

\* the decimal digits
Digits == <<"0","1","2","3","4","5","6","7","8","9">>

\* std::to_string(n) for an int n
RECURSIVE to_string(_)
to_string(n) ==
    IF n < 0 THEN <<"-">> \o to_string(0 - n)
    ELSE IF n < Len(Digits) THEN <<Digits[n + 1]>>
    ELSE to_string(n \div Len(Digits)) \o <<Digits[(n % Len(Digits)) + 1]>>

\* the text built from ctx->modelPath, ctx->contextSize and ctx->numThreads
\* by concatenation
ModelInfo(c) ==
    ModelInfo_Head \o c.modelPath \o ModelInfo_ContextSize
      \o to_string(c.contextSize) \o ModelInfo_Threads
      \o to_string(c.numThreads) \o ModelInfo_Tail

\* empty string when the table is empty, else the info of begin()->second;
\* the string is built under the lock, which the lock_guard releases at
\* the end of the function
nativeGetModelInfo_cs(t) ==
    /\ pc[t] = "nativeGetModelInfo_cs"
    /\ IF DOMAIN g_contexts = {}
         THEN call' = [call EXCEPT ![t].result = << <<>> >>]
         ELSE \E handle \in Begin(g_contexts) :
              \E c \in Deref(g_contexts[handle]) :
                call' = [call EXCEPT ![t].handle = handle,
                                     ![t].smallest = Min(DOMAIN g_contexts),
                                     ![t].present = DOMAIN g_contexts,
                                     ![t].result = <<ModelInfo(c)>>]
    /\ Unlock(t)
    /\ Goto(t, "nativeGetModelInfo_ret")
    /\ last' = NoReturn
    /\ UNCHANGED <<g_contexts, g_next_handle, heap, ctx, ctxPtr, issued,
                   removed>>

\* nativeGetModelInfo returns the string, after the release
nativeGetModelInfo_ret(t) ==
    /\ pc[t] = "nativeGetModelInfo_ret"
    /\ Return(t, call[t], call[t].result[1])
    /\ UNCHANGED <<g_contexts, g_next_handle, g_contexts_mutex, heap, issued,
                   removed>>

\* Java_com_example_todoapp_llm_LlamaInference_nativeGetModelInfo
LlamaInference_nativeGetModelInfo(t) ==
    \/ Call(t, "nativeGetModelInfo", 0, <<>>)
    \/ /\ call[t].name = "nativeGetModelInfo"
       /\ \/ LockGuard(t)
          \/ nativeGetModelInfo_cs(t)
          \/ nativeGetModelInfo_ret(t)

\* Java_com_example_todoapp_llm_LlamaInference_nativeGetVersion
LlamaInference_nativeGetVersion(t) ==
    Constant(t, "nativeGetVersion",
             "llama.cpp JNI v1.0.0 (stub with JSON responses)")

\* Java_com_example_todoapp_llm_LlamaInference_nativeIsAvailable
LlamaInference_nativeIsAvailable(t) == Constant(t, "nativeIsAvailable", TRUE)

(* --------------------------- the specification ------------------------ *)

\* any thread takes a step of any JNI entry point
Next ==
    \/ \E t \in Threads : LlamaNative_initModel(t) /\ UNCHANGED script
    \/ \E t \in Threads : LlamaNative_generate(t) /\ UNCHANGED script
    \/ \E t \in Threads : LlamaNative_freeModel(t) /\ UNCHANGED script
    \/ \E t \in Threads : LlamaInference_nativeInit(t) /\ UNCHANGED script
    \/ \E t \in Threads : LlamaInference_nativeLoadModel(t) /\ UNCHANGED script
    \/ \E t \in Threads : LlamaInference_nativeGenerate(t) /\ UNCHANGED script
    \/ \E t \in Threads : LlamaInference_nativeGenerateWithCallback(t) /\ UNCHANGED script
    \/ \E t \in Threads : LlamaInference_nativeUnloadModel(t) /\ UNCHANGED script
    \/ \E t \in Threads : LlamaInference_nativeCleanup(t) /\ UNCHANGED script
    \/ \E t \in Threads : LlamaInference_nativeIsModelLoaded(t) /\ UNCHANGED script
    \/ \E t \in Threads : LlamaInference_nativeGetModelInfo(t) /\ UNCHANGED script
    \/ \E t \in Threads : LlamaInference_nativeGetVersion(t) /\ UNCHANGED script
    \/ \E t \in Threads : LlamaInference_nativeIsAvailable(t) /\ UNCHANGED script

Spec == Init /\ [][Next]_vars

(* ------------------- scenario: one caller, one prompt ----------------- *)

\* a backslash between two double quotes
QuotedBackslash == Quote \o <<"\\">> \o Quote

\* the pieces prompts are built from: every keyword of the classifier, a
\* capitalised and an upper-case keyword, text that is no keyword, and a
\* quoted name that is one backslash
Fragments ==
    {K_create, K_goal, K_add, K_task, K_list, K_show, K_help, K_complete,
     K_done, K_finish, K_delete, K_remove, K_progress, K_how_am_i, K_status,
     <<"C","r","e","a","t","e">>, <<"S","T","A","T","U","S">>, <<" ","x">>,
     QuotedBackslash}

RECURSIVE Concat(_)
Concat(ss) == IF ss = <<>> THEN <<>> ELSE Head(ss) \o Concat(Tail(ss))

\* the sequences of at most MaxFrags fragments
FragmentLists == UNION {[1..n -> Fragments] : n \in 0..MaxFrags}

P_show_my_status ==
    <<"s","h","o","w"," ","m","y"," ","s","t","a","t","u","s">>

\* the prompts of the specification's examples that are no such concatenation
ExamplePrompts == {P_show_my_status, P_my_status}

\* the caller of this scenario
Caller == Min(Threads)

\* one thread loads one model and then calls generate once on the handle
\* it got, with any prompt
ClassifyNext ==
    \/ /\ g_next_handle = 1
       /\ \E path \in Paths : initModel_new(Caller, "initModel", path)
       /\ UNCHANGED script
    \/ /\ call[Caller].name = "initModel"
       /\ \/ initModel_lock(Caller)
          \/ initModel_cs(Caller)
          \/ initModel_ret(Caller)
       /\ UNCHANGED script
    \/ /\ pc[Caller] = "idle"
       /\ last.call.name = "initModel"
       /\ \/ \E ss \in FragmentLists :
                Call(Caller, "generate", last.ret, Concat(ss))
          \/ \E prompt \in ExamplePrompts :
                Call(Caller, "generate", last.ret, prompt)
       /\ UNCHANGED script
    \/ /\ call[Caller].name = "generate"
       /\ \/ LockGuard(Caller)
          \/ generate_cs(Caller)
          \/ generate_ret(Caller)
          \/ generate_classify(Caller)
       /\ UNCHANGED script

SpecClassify == Init /\ [][ClassifyNext]_vars

(* ------------- scenario: one caller, prompts with quotes -------------- *)

\* the pieces of these prompts: the keywords of each extracting branch (one
\* with a capital letter), the double quote, text with a capital letter,
\* a blank, and the backslash
QuoteFragments ==
    {K_create \o <<" ">> \o K_goal, <<"A","d","d"," ">> \o K_task, K_done,
     Quote, <<"A","b">>, <<" ">>, <<"\\">>}

\* the sequences of at most MaxQuoteFrags such fragments
QuoteLists == UNION {[1..n -> QuoteFragments] : n \in 0..MaxQuoteFrags}

\* one thread loads one model and then calls generate once on the handle
\* it got, with any of these prompts
QuoteNext ==
    \/ /\ g_next_handle = 1
       /\ \E path \in Paths : initModel_new(Caller, "initModel", path)
       /\ UNCHANGED script
    \/ /\ call[Caller].name = "initModel"
       /\ \/ initModel_lock(Caller)
          \/ initModel_cs(Caller)
          \/ initModel_ret(Caller)
       /\ UNCHANGED script
    \/ /\ pc[Caller] = "idle"
       /\ last.call.name = "initModel"
       /\ \E ss \in QuoteLists : Call(Caller, "generate", last.ret, Concat(ss))
       /\ UNCHANGED script
    \/ /\ call[Caller].name = "generate"
       /\ \/ LockGuard(Caller)
          \/ generate_cs(Caller)
          \/ generate_ret(Caller)
          \/ generate_classify(Caller)
       /\ UNCHANGED script

SpecQuote == Init /\ [][QuoteNext]_vars

(* -------------- scenario: initModel / freeModel in a loop ------------- *)

\* the model file every thread of this scenario loads
StressPath == Path_plain

\* Each thread repeats StressRounds times: h = initModel(path); freeModel(h);
\* script[t].handle is the caller's h (0 while it holds none), script[t].round
\* the rounds it has completed.
StressNext ==
    \/ \E t \in Threads :
          /\ script[t].handle = 0
          /\ script[t].round < StressRounds
          /\ initModel_new(t, "initModel", StressPath)
          /\ UNCHANGED script
    \/ \E t \in Threads :
          /\ initModel_lock(t)
          /\ UNCHANGED script
    \/ \E t \in Threads :
          /\ initModel_cs(t)
          /\ UNCHANGED script
    \/ \E t \in Threads :
          /\ initModel_ret(t)
          /\ script' = [script EXCEPT ![t].handle = last'.ret]
    \/ \E t \in Threads :
          /\ script[t].handle # 0
          /\ Call(t, "freeModel", script[t].handle, <<>>)
          /\ UNCHANGED script
    \/ \E t \in Threads :
          /\ LockGuard(t)
          /\ UNCHANGED script
    \/ \E t \in Threads :
          /\ freeModel_cs(t)
          /\ UNCHANGED script
    \/ \E t \in Threads :
          /\ freeModel_ret(t)
          /\ script' = [script EXCEPT ![t] = [round |-> @.round + 1, handle |-> 0]]

SpecStress == Init /\ [][StressNext]_vars

(* ------------- scenario: one caller, no concurrent operation ---------- *)

\* the prompts the caller of this scenario passes
SoloPrompts == ExamplePrompts \cup {K_help}

\* One thread calls initModel, freeModel, generate, nativeGenerate and
\* nativeUnloadModel one after the other, in any order; no other thread
\* runs.
SoloNext ==
    \/ LlamaNative_initModel(Caller) /\ UNCHANGED script
    \/ LlamaNative_freeModel(Caller) /\ UNCHANGED script
    \/ /\ \E h \in HandleArgs, prompt \in SoloPrompts :
             Call(Caller, "generate", h, prompt)
       /\ UNCHANGED script
    \/ /\ call[Caller].name = "generate"
       /\ \/ LockGuard(Caller)
          \/ generate_cs(Caller)
          \/ generate_ret(Caller)
          \/ generate_classify(Caller)
       /\ UNCHANGED script
    \/ /\ \E prompt \in SoloPrompts :
             Call(Caller, "nativeGenerate", 0, prompt)
       /\ UNCHANGED script
    \/ /\ call[Caller].name = "nativeGenerate"
       /\ \/ LockGuard(Caller)
          \/ nativeGenerate_cs(Caller)
          \/ nativeGenerate_ret(Caller)
          \/ generate_lock_nested(Caller)
          \/ generate_cs(Caller)
          \/ generate_ret(Caller)
          \/ generate_classify(Caller)
       /\ UNCHANGED script
    \/ LlamaInference_nativeUnloadModel(Caller) /\ UNCHANGED script

SpecSolo == Init /\ [][SoloNext]_vars

(* ============================== properties ============================ *)

\* entry point name has just returned: the step that led to this state was
\* its return
LastIs(name) == last.call.name = name

(* ---- a response read as JSON ---- *)
\* The responses are JSON texts for the caller.  What a caller reads in
\* them is what a JSON reader (RFC 8259) finds.  A value is read as a record
\* of its kind ("object", "array", "string", "number", "name") and its
\* content: the members by name, the elements, the characters, and for a
\* number or one of the names true, false and null its text.

\* the character U+0008, which a TLA+ string cannot hold
Backspace == "U+0008"

\* the characters a JSON string cannot hold unescaped
ControlChars == {Backspace, "\t", "\n", "\f", "\r"}

\* blanks between the tokens of a JSON text
JsonBlanks == {" ", "\t", "\n", "\r"}

\* the character \c stands for in a JSON string; "" when \c is no escape.
\* \u and four hexadecimal digits is not read.
Unescape(c) ==
    CASE c = "\"" -> "\""
      [] c = "\\" -> "\\"
      [] c = "/" -> "/"
      [] c = "b" -> Backspace
      [] c = "f" -> "\f"
      [] c = "n" -> "\n"
      [] c = "r" -> "\r"
      [] c = "t" -> "\t"
      [] OTHER -> ""

\* the result of reading text that is no JSON
JsonFail == [ok |-> FALSE, next |-> 0, val |-> [kind |-> "none", val |-> <<>>]]

JsonOk(next, kind, val) ==
    [ok |-> TRUE, next |-> next, val |-> [kind |-> kind, val |-> val]]

\* the first position from i on (1-based) that holds no blank
RECURSIVE SkipBlanks(_, _)
SkipBlanks(text, i) ==
    IF i <= Len(text) /\ text[i] \in JsonBlanks
      THEN SkipBlanks(text, i + 1)
      ELSE i

\* One character of a string read: mode is "in" inside the string, "esc"
\* after a backslash, "end" after the closing quote (next is the position
\* after it) and "bad" when the text is no string; val is what was read.
StringStep(st, c, i) ==
    CASE st.mode = "in" ->
           IF c = "\"" THEN [st EXCEPT !.mode = "end", !.next = i + 1]
           ELSE IF c = "\\" THEN [st EXCEPT !.mode = "esc"]
           ELSE IF c \in ControlChars THEN [st EXCEPT !.mode = "bad"]
           ELSE [st EXCEPT !.val = Append(@, c)]
      [] st.mode = "esc" ->
           IF Unescape(c) = ""
             THEN [st EXCEPT !.mode = "bad"]
             ELSE [st EXCEPT !.mode = "in", !.val = Append(@, Unescape(c))]
      [] OTHER -> st

\* the characters at positions a..b read one after the other, by halves
RECURSIVE StringScan(_, _, _, _)
StringScan(st, text, a, b) ==
    IF st.mode \in {"end", "bad"} \/ a > b THEN st
    ELSE IF a = b THEN StringStep(st, text[a], a)
    ELSE LET mid == (a + b) \div 2
         IN  StringScan(StringScan(st, text, a, mid), text, mid + 1, b)

\* the string whose opening quote precedes position i
JsonChars(text, i) ==
    LET st == StringScan([mode |-> "in", next |-> 0, val |-> <<>>],
                         text, i, Len(text))
    IN  IF st.mode = "end" THEN JsonOk(st.next, "string", st.val) ELSE JsonFail

\* the character at position i, "" past the end
At(text, i) == IF i \in 1..Len(text) THEN text[i] ELSE ""

\* the first position from i on that holds no digit
RECURSIVE SkipDigits(_, _)
SkipDigits(text, i) ==
    IF At(text, i) \in Range(Digits) THEN SkipDigits(text, i + 1) ELSE i

\* the number at position i: [-] digits [. digits] [e|E [+|-] digits],
\* the first digits without a leading zero
JsonNumber(text, i) ==
    LET int == IF At(text, i) = "-" THEN i + 1 ELSE i
        intEnd == SkipDigits(text, int)
        intOk == intEnd > int /\ (At(text, int) = "0" => intEnd = int + 1)
        fracEnd == IF At(text, intEnd) = "."
                     THEN SkipDigits(text, intEnd + 1)
                     ELSE intEnd
        fracOk == At(text, intEnd) = "." => fracEnd > intEnd + 1
        exp == IF At(text, fracEnd) \in {"e", "E"}
                 THEN IF At(text, fracEnd + 1) \in {"+", "-"}
                        THEN fracEnd + 2
                        ELSE fracEnd + 1
                 ELSE fracEnd
        expEnd == IF exp > fracEnd THEN SkipDigits(text, exp) ELSE fracEnd
        expOk == exp > fracEnd => expEnd > exp
    IN  IF intOk /\ fracOk /\ expOk
          THEN JsonOk(expEnd, "number", SubSeq(text, i, expEnd - 1))
          ELSE JsonFail

\* the names that are values
JsonNames ==
    {<<"t","r","u","e">>, <<"f","a","l","s","e">>, <<"n","u","l","l">>}

\* the name at position i
JsonName(text, i) ==
    IF \E name \in JsonNames : SubSeq(text, i, i + Len(name) - 1) = name
      THEN LET name == CHOOSE n \in JsonNames :
                           SubSeq(text, i, i + Len(n) - 1) = n
           IN  JsonOk(i + Len(name), "name", name)
      ELSE JsonFail

\* the value at position i; the members of an object from position i on,
\* acc being the members read (a later member of the same name replaces an
\* earlier one); the elements of an array from position i on
RECURSIVE JsonValue(_, _), JsonMembers(_, _, _), JsonElements(_, _, _)
JsonValue(text, i0) ==
    LET i == SkipBlanks(text, i0)
        j == SkipBlanks(text, i + 1)
    IN  IF At(text, i) = "\"" THEN JsonChars(text, i + 1)
        ELSE IF At(text, i) = "{" THEN
          IF At(text, j) = "}"
            THEN JsonOk(j + 1, "object", <<>>)
            ELSE JsonMembers(text, j, <<>>)
        ELSE IF At(text, i) = "[" THEN
          IF At(text, j) = "]"
            THEN JsonOk(j + 1, "array", <<>>)
            ELSE JsonElements(text, j, <<>>)
        ELSE IF At(text, i) \in Range(Digits) \cup {"-"} THEN JsonNumber(text, i)
        ELSE JsonName(text, i)

JsonElements(text, i, acc) ==
    LET value == JsonValue(text, i)
        end == SkipBlanks(text, value.next)
        elements == Append(acc, value.val)
    IN  IF ~value.ok THEN JsonFail
        ELSE IF At(text, end) = "]" THEN JsonOk(end + 1, "array", elements)
        ELSE IF At(text, end) = "," THEN JsonElements(text, end + 1, elements)
        ELSE JsonFail

JsonMembers(text, i, acc) ==
    IF At(text, i) # "\"" THEN JsonFail
    ELSE
      LET key == JsonChars(text, i + 1)
          colon == SkipBlanks(text, key.next)
      IN  IF ~key.ok \/ At(text, colon) # ":" THEN JsonFail
          ELSE
            LET value == JsonValue(text, colon + 1)
                end == SkipBlanks(text, value.next)
                members == (key.val.val :> value.val) @@ acc
            IN  IF ~value.ok THEN JsonFail
                ELSE IF At(text, end) = "}" THEN JsonOk(end + 1, "object", members)
                ELSE IF At(text, end) = ","
                  THEN JsonMembers(text, SkipBlanks(text, end + 1), members)
                ELSE JsonFail

\* the value of a whole text: kind "none" when the text is no JSON
Json(text) ==
    LET value == JsonValue(text, 1)
    IN  IF value.ok /\ SkipBlanks(text, value.next) = Len(text) + 1
          THEN value.val
          ELSE JsonFail.val

\* the member name of the object v: kind "none" when v is no object or
\* has no such member
Member(v, name) ==
    IF v.kind = "object" /\ name \in DOMAIN v.val
      THEN v.val[name]
      ELSE JsonFail.val

\* v is the string s
IsString(v, s) == v.kind = "string" /\ v.val = s

Key_action == <<"a","c","t","i","o","n">>
Key_message == <<"m","e","s","s","a","g","e">>
Key_data == <<"d","a","t","a">>
Key_goalTitle == <<"g","o","a","l","T","i","t","l","e">>
Key_taskTitle == <<"t","a","s","k","T","i","t","l","e">>

A_reply == <<"r","e","p","l","y">>
A_create_goal == <<"c","r","e","a","t","e","_","g","o","a","l">>
A_create_task == <<"c","r","e","a","t","e","_","t","a","s","k">>
A_complete_task == <<"c","o","m","p","l","e","t","e","_","t","a","s","k">>
A_show_progress == <<"s","h","o","w","_","p","r","o","g","r","e","s","s">>

\* the response text has the action a
HasAction(text, a) == IsString(Member(Json(text), Key_action), a)

\* the payload of the response text holds the string s under name
HasTitle(text, name, s) ==
    IsString(Member(Member(Json(text), Key_data), name), s)

\* the payload of the response text is the empty object
EmptyData(text) ==
    LET data == Member(Json(text), Key_data)
    IN  data.kind = "object" /\ DOMAIN data.val = {}

\* freeModel has completed for a handle that was registered
Freed(h) == h \in DOMAIN removed /\ removed[h] = "freeModel"

(* ---- C1 ---- *)
\* C1: generate(h, prompt, maxTokens) on a handle that is 0, negative, not
\* issued up to the return of the call, or erased before the call, returns
\* exactly the fixed "Error: Model not loaded" response, whose action is
\* reply and whose payload is empty, and the classifier is not run.  When
\* the locked check finds h not registered, the call goes to the return of
\* the fixed response, and neither the check nor the return changes the
\* table, the counter or a context.
C1_InvalidHandle ==
    /\ []( ( /\ LastIs("generate")
             /\ \/ last.call.handle <= 0
                \/ last.call.handle \notin Range(issued)
                \/ last.call.removedAtCall # "" )
           => ( /\ last.ret = ModelNotLoaded
                /\ ~last.call.classified ) )
    /\ [][\A t \in Threads :
            ( /\ pc[t] = "generate_cs"
              /\ call[t].name = "generate"
              /\ pc'[t] # "generate_cs"
              /\ ctxPtr[t] \notin DOMAIN g_contexts )
            => ( /\ pc'[t] = "generate_ret"
                 /\ call'[t] = call[t]
                 /\ UNCHANGED registry )]_vars
    /\ [][\A t \in Threads :
            ( /\ pc[t] = "generate_ret"
              /\ call[t].name = "generate"
              /\ pc'[t] # "generate_ret" )
            => ( /\ last' = Returned(call[t], ModelNotLoaded)
                 /\ ~last'.call.classified
                 /\ HasAction(last'.ret, A_reply)
                 /\ EmptyData(last'.ret)
                 /\ pc'[t] = "idle"
                 /\ UNCHANGED registry )]_vars

\* a generate on a handle freeModel had erased has returned the fixed
\* response while another handle is registered
C1_Witness ==
    /\ LastIs("generate")
    /\ last.call.removedAtCall = "freeModel"
    /\ last.ret = ModelNotLoaded
    /\ DOMAIN g_contexts # {}

\* a generate called on a handle before it was issued has returned the
\* classifier's response: the handle was inserted before the locked check
C1_WitnessIssuedSince ==
    /\ LastIs("generate")
    /\ ~last.call.issuedAtCall
    /\ last.call.classified

(* ---- C2 ---- *)
\* C2: a handle erased by freeModel is never in the table again, whatever
\* is called afterwards, and a generate called on it after the freeModel
\* erased it returns the invalid-context response.
C2_FreedStaysInvalid ==
    /\ \A h \in DOMAIN removed : Freed(h) => h \notin DOMAIN g_contexts
    /\ (LastIs("generate") /\ last.call.removedAtCall = "freeModel")
          => last.ret = ModelNotLoaded
    /\ \A t \in Threads :
          ( /\ call[t].name = "generate"
            /\ call[t].removedAtCall = "freeModel" )
          => pc[t] # "generate_classify"

\* generate on a freed handle returned the invalid-context response after
\* a later initModel and a teardown had happened
C2_Witness ==
    /\ LastIs("generate")
    /\ last.call.removedAtCall = "freeModel"
    /\ last.ret = ModelNotLoaded
    /\ Len(issued) > 1
    /\ \E h \in DOMAIN removed : removed[h] = "nativeUnloadModel"

(* ---- C3 ---- *)
\* C3: the handles initModel hands out are 1, 2, 3, ... in allocation
\* order: the first is 1, each is greater than all before it, none is 0 or
\* repeated; the counter is always one more than the number handed out,
\* so freeModel, unloadModel and cleanup never lower it; and initModel
\* returns the handle it allocated: a handle that was handed out, that no
\* other initModel in progress is about to return and that differs from
\* the one that has just been returned.
C3_HandlesIncrease ==
    /\ \A i \in 1..Len(issued) :
          /\ issued[i] # 0
          /\ i = 1 => issued[i] = 1
          /\ \A j \in 1..(i - 1) : issued[j] < issued[i]
    /\ g_next_handle = Len(issued) + 1
    /\ LastIs("initModel") =>
          (last.ret = last.call.handle /\ last.ret \in Range(issued))
    /\ \A t \in Threads :
          pc[t] = "initModel_ret" =>
             /\ call[t].handle \in Range(issued)
             /\ LastIs("initModel") => last.ret # call[t].handle
             /\ \A u \in Threads \ {t} :
                   pc[u] = "initModel_ret" => call[u].handle # call[t].handle

\* a second handle has been issued after the first one was erased
C3_Witness ==
    /\ Len(issued) = 2
    /\ LastIs("initModel")
    /\ last.ret = 2
    /\ 1 \in DOMAIN removed

\* two initModel calls overlapped and the one that allocated first has
\* returned last
C3_WitnessOvertaken ==
    /\ LastIs("initModel")
    /\ last.ret = 1
    /\ Len(issued) = 2
    /\ \A t \in Threads : pc[t] = "idle"
    /\ DOMAIN g_contexts = {1, 2}

\* the handles initModel had returned before the return just taken: all
\* that were handed out but the one just returned and those an initModel
\* that has left its critical section is still to return
ReturnedBefore ==
    Range(issued) \ ({last.ret}
                       \cup {call[t].handle :
                               t \in {u \in Threads : pc[u] = "initModel_ret"}})

\* C3 as claimed: the first handle is 1, none is 0 or repeated, the counter
\* is never lowered, and every initModel returns a value greater than every
\* handle returned before it.
C3_ReturnsIncrease ==
    /\ \A i \in 1..Len(issued) :
          /\ issued[i] # 0
          /\ i = 1 => issued[i] = 1
          /\ \A j \in 1..(i - 1) : issued[j] < issued[i]
    /\ g_next_handle = Len(issued) + 1
    /\ LastIs("initModel") => \A h \in ReturnedBefore : h < last.ret

(* ---- C4 ---- *)
\* C4: initModel returns a non-zero handle for every path, which is in the
\* table unless it has been erased since it was inserted, and a generate
\* called on a handle after initModel returned it, with no freeModel of it
\* and no unloadModel or cleanup up to the return of generate, does not
\* return the "Error: Model not loaded" response: it returns the
\* classifier's response.
C4_LiveHandleGenerates ==
    /\ LastIs("initModel") =>
          /\ last.ret # 0
          /\ last.ret \notin DOMAIN removed => last.ret \in DOMAIN g_contexts
    /\ \A t \in Threads : pc[t] = "initModel_ret" => call[t].handle # 0
    /\ ( /\ LastIs("generate")
         /\ last.call.issuedAtCall
         /\ last.call.handle \notin DOMAIN removed )
          => ( /\ last.ret # ModelNotLoaded
               /\ last.ret = Classify(last.call.prompt) )

\* generate succeeded on a handle while another handle had been erased
C4_Witness ==
    /\ LastIs("generate")
    /\ last.call.issuedAtCall
    /\ last.call.handle \notin DOMAIN removed
    /\ DOMAIN removed # {}
    /\ last.ret = ProgressReply

\* initModel has returned a handle that a teardown erased between the
\* release of the mutex and the return
C4_WitnessErased ==
    /\ LastIs("initModel")
    /\ last.ret \in DOMAIN removed
    /\ removed[last.ret] = "nativeUnloadModel"
    /\ \E t \in Threads : pc[t] = "nativeUnloadModel_ret"

\* C4 as claimed: initModel returns a non-zero handle that is registered
\* at the moment it is returned, so that a generate called on it from then
\* on, with no freeModel of it and no unloadModel or cleanup after the
\* return of initModel, returns the classifier's response.
C4_ReturnedHandleGenerates ==
    /\ LastIs("initModel") =>
          (last.ret # 0 /\ last.ret \in DOMAIN g_contexts)
    /\ ( /\ LastIs("generate")
         /\ last.call.issuedAtCall
         /\ last.call.handle \notin DOMAIN removed )
          => ( /\ last.ret # ModelNotLoaded
               /\ last.ret = Classify(last.call.prompt) )

(* ---- C5 ---- *)
\* C5: when every thread repeats "h = initModel; freeModel(h)", in every
\* interleaving no handle is handed out twice - so no two threads hold the
\* same handle -, the handle a thread holds is registered with a live
\* context until that thread's own freeModel erases it, and when all threads
\* have finished the table is empty and every context was deleted once.
C5_StressLeavesEmpty ==
    /\ \A i, j \in 1..Len(issued) : i # j => issued[i] # issued[j]
    /\ \A t, u \in Threads :
          (t # u /\ script[t].handle # 0) => script[t].handle # script[u].handle
    /\ \A t \in Threads :
          (script[t].handle # 0 /\ pc[t] # "freeModel_ret") =>
             /\ script[t].handle \in DOMAIN g_contexts
             /\ heap[g_contexts[script[t].handle]].deletes = 0
    /\ \A t \in Threads :
          pc[t] = "initModel_ret" =>
             /\ call[t].handle \in DOMAIN g_contexts
             /\ g_contexts[call[t].handle] = ctx[t]
             /\ heap[ctx[t]].deletes = 0
    /\ \A t \in Threads :
          pc[t] = "freeModel_ret" =>
             /\ script[t].handle = call[t].handle
             /\ removed[script[t].handle] = "freeModel"
    /\ (\A t \in Threads : script[t].round = StressRounds) =>
          /\ DOMAIN g_contexts = {}
          /\ Len(issued) = NumThreads * StressRounds
          /\ \A p \in DOMAIN heap : heap[p].deletes = 1

\* every thread has completed all its rounds
C5_Witness ==
    /\ \A t \in Threads : script[t].round = StressRounds
    /\ Len(issued) = NumThreads * StressRounds

(* ---- C6 ---- *)
\* C6: nativeIsModelLoaded returns TRUE exactly when the table is not empty
\* when it evaluates it under the mutex; the table it finds holds only
\* issued handles, so it returns FALSE as long as no model was loaded;
\* nativeLoadModel returns TRUE, and the table holds the context it
\* inserted, so is not empty, unless that handle was erased since; and the
\* table is empty whenever every issued handle has been erased, as it is
\* after nativeUnloadModel until the next insertion.
C6_IsLoadedIffNonEmpty ==
    /\ LastIs("nativeIsModelLoaded") =>
          /\ last.ret = (last.call.present # {})
          /\ last.call.present \subseteq Range(issued)
          /\ issued = <<>> => last.ret = FALSE
    /\ \A t \in Threads :
          /\ pc[t] = "nativeIsModelLoaded_cs" => g_contexts_mutex = t
          /\ pc[t] = "nativeIsModelLoaded_ret" =>
                /\ call[t].result = <<call[t].present # {}>>
                /\ call[t].present \subseteq Range(issued)
    /\ LastIs("nativeLoadModel") =>
          /\ last.ret = TRUE
          /\ last.call.handle \notin DOMAIN removed =>
                (last.call.handle \in DOMAIN g_contexts /\ DOMAIN g_contexts # {})
    /\ DOMAIN g_contexts = Range(issued) \ DOMAIN removed

\* nativeIsModelLoaded returned FALSE after a model was loaded and unloaded
C6_Witness ==
    /\ LastIs("nativeIsModelLoaded")
    /\ last.ret = FALSE
    /\ issued # <<>>
    /\ \E h \in DOMAIN removed : removed[h] = "nativeUnloadModel"

\* nativeLoadModel has returned TRUE on an empty table: the teardown ran
\* between its insertion and its return
C6_WitnessUnloaded ==
    /\ LastIs("nativeLoadModel")
    /\ last.ret = TRUE
    /\ DOMAIN g_contexts = {}

\* nativeIsModelLoaded has returned FALSE on a table that is not empty: an
\* initModel inserted between the evaluation and the return
C6_WitnessLoadedSince ==
    /\ LastIs("nativeIsModelLoaded")
    /\ last.ret = FALSE
    /\ DOMAIN g_contexts # {}

(* ---- C7 ---- *)
\* a generate that ran the classifier on prompt has just returned
Classified(prompt) ==
    LastIs("generate") /\ last.call.classified /\ last.call.prompt = prompt

\* C7 as claimed: generate on a valid handle with the prompt "show my
\* status" yields the action show_progress.
C7_ShowMyStatusIsProgress ==
    Classified(P_show_my_status) => HasAction(last.ret, A_show_progress)

\* C7 amended: "show my status" contains "show", so the third branch wins
\* and the action is reply, with the message of that branch; a prompt with
\* "status" and no keyword of an earlier branch, "my status", yields
\* show_progress.
C7_ShowMyStatusIsReply ==
    /\ Classified(P_show_my_status) =>
          /\ HasAction(last.ret, A_reply)
          /\ last.ret = ListReply
          /\ EmptyData(last.ret)
    /\ Classified(P_my_status) =>
          (HasAction(last.ret, A_show_progress) /\ EmptyData(last.ret))

\* generate has classified "show my status" on a valid handle
C7_Witness ==
    /\ Classified(P_show_my_status)
    /\ last.call.handle \in DOMAIN g_contexts

(* ---- C8 ---- *)
\* kw occurs in prompt, ignoring the case of the prompt's letters
Occurs(prompt, kw) ==
    \E i \in 0..(Len(prompt) - Len(kw)) :
        \A j \in 1..Len(kw) : tolower(prompt[i + j]) = kw[j]

\* the rules of the claim, by number
RuleMatches(n, prompt) ==
    CASE n = 1 -> Occurs(prompt, K_create) /\ Occurs(prompt, K_goal)
      [] n = 2 -> Occurs(prompt, K_add) /\ Occurs(prompt, K_task)
      [] n = 3 -> Occurs(prompt, K_list) \/ Occurs(prompt, K_show)
      [] n = 4 -> Occurs(prompt, K_help)
      [] n = 5 -> \/ Occurs(prompt, K_complete)
                  \/ Occurs(prompt, K_done)
                  \/ Occurs(prompt, K_finish)
      [] n = 6 -> Occurs(prompt, K_delete) \/ Occurs(prompt, K_remove)
      [] n = 7 -> \/ Occurs(prompt, K_progress)
                  \/ Occurs(prompt, K_how_am_i)
                  \/ Occurs(prompt, K_status)
      [] OTHER -> TRUE

RuleAction ==
    <<A_create_goal, A_create_task, A_reply, A_reply, A_complete_task, A_reply,
      A_show_progress, A_reply>>

FirstRule(prompt) == Min({n \in DOMAIN RuleAction : RuleMatches(n, prompt)})

\* C8 as claimed: for every prompt on a valid handle, the action of the
\* response is the action of the lowest-numbered rule whose keywords occur
\* in the prompt, case-insensitively, as substrings.
C8_FirstRuleWins ==
    (LastIs("generate") /\ last.call.classified) =>
        HasAction(last.ret, RuleAction[FirstRule(last.call.prompt)])

\* what the code does: the branch taken is the one of the lowest-numbered
\* rule, so a response that is JSON has the action of that rule, and a
\* response is JSON when the prompt has no backslash
FirstRuleWinsInJson ==
    (LastIs("generate") /\ last.call.classified) =>
        /\ Json(last.ret).kind # "none" =>
              HasAction(last.ret, RuleAction[FirstRule(last.call.prompt)])
        /\ (\A i \in 1..Len(last.call.prompt) : last.call.prompt[i] # "\\")
              => Json(last.ret).kind = "object"

\* a prompt matching rules 3, 5 and 7, one keyword capitalised, was
\* classified by rule 3
FirstRuleWinsInJson_Witness ==
    /\ LastIs("generate")
    /\ last.call.classified
    /\ RuleMatches(7, last.call.prompt)
    /\ RuleMatches(5, last.call.prompt)
    /\ FirstRule(last.call.prompt) = 3
    /\ last.call.prompt # ToLowerString(last.call.prompt)
    /\ HasAction(last.ret, A_reply)

(* ---- C9 ---- *)
\* a call that read g_contexts.begin() of a non-empty table has just returned
ReadBegin ==
    /\ \/ LastIs("nativeGenerate")
       \/ LastIs("nativeGenerateWithCallback")
       \/ LastIs("nativeGetModelInfo")
    /\ last.call.smallest # 0

\* C9 as claimed: the context nativeGenerate and nativeGetModelInfo use is
\* the one with the smallest handle registered when they read the table.
C9_CurrentIsSmallest == ReadBegin => last.call.handle = last.call.smallest

(* ---- C10 ---- *)
\* the contexts an initModel in progress has created and not yet inserted
InFlight ==
    {ctx[t] : t \in {u \in Threads : pc[u] \in {"initModel_lock", "initModel_cs"}}}

\* the contexts that were inserted in the table at some time
Inserted == DOMAIN heap \ InFlight

\* the teardown has just returned, called directly or through nativeCleanup
LastIsTeardown == LastIs("nativeUnloadModel") \/ LastIs("nativeCleanup")

\* C10: the critical section of nativeUnloadModel, called directly or by
\* nativeCleanup, leaves the table empty: no issued handle is registered,
\* nativeIsModelLoaded would return FALSE, and every context that was ever
\* inserted has been deleted exactly once, the registered ones by this
\* step; the return that follows changes nothing, so the table is empty
\* when the call returns unless an initModel has inserted since; at no time
\* is a context deleted twice or an erased handle registered.
C10_TeardownEmpties ==
    /\ [](\A p \in DOMAIN heap : heap[p].deletes <= 1)
    /\ [](\A h \in DOMAIN removed : NotFound(g_contexts, h))
    /\ [](LastIsTeardown =>
            /\ last.ret = Void
            /\ \A h \in last.call.present : NotFound(g_contexts, h)
            /\ (\A h \in Range(issued) : h \in DOMAIN removed)
                  => (DOMAIN g_contexts = {} /\ ~IsModelLoaded(g_contexts)))
    /\ [][\A t \in Threads :
            (pc[t] = "nativeUnloadModel_cs" /\ pc'[t] # "nativeUnloadModel_cs")
            => ( /\ pc'[t] = "nativeUnloadModel_ret"
                 /\ DOMAIN g_contexts' = {}
                 /\ \A i \in 1..Len(issued') : NotFound(g_contexts', issued'[i])
                 /\ ~IsModelLoaded(g_contexts')
                 /\ \A p \in Inserted : heap'[p].deletes = 1
                 /\ \A p \in InFlight : heap'[p].deletes = 0
                 /\ g_next_handle' = g_next_handle )]_vars
    /\ [][\A t \in Threads :
            (pc[t] = "nativeUnloadModel_ret" /\ pc'[t] # "nativeUnloadModel_ret")
            => ( /\ last' = Returned(call[t], Void)
                 /\ pc'[t] = "idle"
                 /\ UNCHANGED registry )]_vars

\* nativeCleanup has returned after erasing two contexts, one created by
\* initModel and one by nativeLoadModel, in one teardown
C10_Witness ==
    /\ LastIs("nativeCleanup")
    /\ Len(issued) = 2
    /\ last.call.present = {1, 2}
    /\ DOMAIN g_contexts = {}
    /\ \A p \in DOMAIN heap : heap[p].deletes = 1
    /\ \A t \in Threads : pc[t] = "idle"

\* the teardown has returned on a table that is not empty: an initModel
\* inserted between the release of the mutex and the return
C10_WitnessInsertedSince ==
    /\ LastIsTeardown
    /\ last.call.present # {}
    /\ DOMAIN g_contexts # {}

(* ---- C11 ---- *)
\* C11: the critical section of freeModel(h) leaves the counter and the
\* entries of all handles but h as they were and removes the entry of h;
\* the only context it deletes is the one h was mapped to, which had not
\* been deleted before; when h is not in the table - in particular when a
\* freeModel had erased it before this call - the table, the counter and
\* the contexts do not change at all; the return that follows changes
\* nothing either.
C11_FreeModelFrame ==
    /\ [][\A t \in Threads :
            (pc[t] = "freeModel_cs" /\ pc'[t] # "freeModel_cs")
            => ( /\ pc'[t] = "freeModel_ret"
                 /\ g_next_handle' = g_next_handle
                 /\ DOMAIN g_contexts' = DOMAIN g_contexts \ {ctxPtr[t]}
                 /\ \A h \in DOMAIN g_contexts' : g_contexts'[h] = g_contexts[h]
                 /\ \A p \in DOMAIN heap :
                       heap'[p] # heap[p]
                         => ( /\ ctxPtr[t] \in DOMAIN g_contexts
                              /\ g_contexts[ctxPtr[t]] = p
                              /\ heap[p].deletes = 0
                              /\ heap'[p].deletes = 1 )
                 /\ ctxPtr[t] \notin DOMAIN g_contexts => UNCHANGED registry
                 /\ call[t].removedAtCall = "freeModel" => UNCHANGED registry )]_vars
    /\ [][\A t \in Threads :
            (pc[t] = "freeModel_ret" /\ pc'[t] # "freeModel_ret")
            => ( /\ last' = Returned(call[t], Void)
                 /\ pc'[t] = "idle"
                 /\ UNCHANGED registry )]_vars

\* a second freeModel of a handle has returned while another handle is
\* still registered
C11_Witness ==
    /\ LastIs("freeModel")
    /\ last.call.removedAtCall = "freeModel"
    /\ last.call.handle \in Range(issued)
    /\ DOMAIN g_contexts # {}
    /\ \A p \in DOMAIN heap : heap[p].deletes <= 1

(* ---- C12 ---- *)
\* C12 as claimed: when nativeGenerateWithCallback has returned after
\* finding a model loaded, the callback it was given has been invoked
\* exactly once.
C12_DeliveredOnce ==
    (LastIs("nativeGenerateWithCallback") /\ last.call.smallest # 0)
        => last.call.delivered = 1

(* ---- C13 ---- *)
\* what generate returns for handle h and prompt when h is looked up in table
GenerateResult(table, h, prompt) ==
    IF h \in DOMAIN table THEN Classify(prompt) ELSE ModelNotLoaded

\* C13: with a single caller, nativeGenerate on an empty table returns the
\* fixed "No model loaded. Please download a model first." reply, the
\* classifier is not run and the table, the counter and the contexts are as
\* they were; on a non-empty table it returns what generate returns for a
\* handle of the table and the same prompt, which is the classifier's
\* response.
C13_LegacyGenerate ==
    /\ [](LastIs("nativeGenerate") =>
            IF last.call.smallest = 0
              THEN /\ last.ret = NoModelLoaded
                   /\ ~last.call.classified
                   /\ last.call.handle = 0
              ELSE /\ last.call.handle \in DOMAIN g_contexts
                   /\ last.ret = GenerateResult(g_contexts, last.call.handle,
                                                last.call.prompt)
                   /\ last.ret = Classify(last.call.prompt)
                   /\ last.call.classified)
    /\ [][(pc[Caller] = "nativeGenerate_cs" /\ DOMAIN g_contexts = {})
            => ( /\ pc'[Caller] = "nativeGenerate_handle"
                 /\ call'[Caller].handle = 0
                 /\ UNCHANGED registry )]_vars
    /\ [][(pc[Caller] = "nativeGenerate_handle" /\ call[Caller].handle = 0)
            => ( /\ last' = Returned(call[Caller], NoModelLoaded)
                 /\ HasAction(last'.ret, A_reply)
                 /\ pc'[Caller] = "idle"
                 /\ UNCHANGED registry )]_vars
    /\ [][(call[Caller].name = "nativeGenerate") => UNCHANGED registry]_vars

\* nativeGenerate has returned the fixed reply on a table a teardown had
\* emptied
C13_WitnessEmpty ==
    /\ LastIs("nativeGenerate")
    /\ last.ret = NoModelLoaded
    /\ \E h \in DOMAIN removed : removed[h] = "nativeUnloadModel"

\* nativeGenerate has returned the classifier's response for "help" with
\* two handles registered
C13_Witness ==
    /\ LastIs("nativeGenerate")
    /\ last.call.prompt = K_help
    /\ last.ret = Classify(K_help)
    /\ last.ret # NoModelLoaded
    /\ Cardinality(DOMAIN g_contexts) = 2

\* with several callers, nativeGenerate has returned the fixed reply on a
\* table that is not empty: an initModel ran between its reading of the
\* table and its return
C13_WitnessLoaded ==
    /\ LastIs("nativeGenerate")
    /\ last.ret = NoModelLoaded
    /\ DOMAIN g_contexts # {}

(* ---- C14 ---- *)
\* the contexts the table points to
Registered == {g_contexts[h] : h \in DOMAIN g_contexts}

C14_WitnessDeletedSince ==
    /\ LastIs("nativeGetModelInfo")
    /\ last.call.handle \in DOMAIN removed
    /\ last.ret # <<>>

\* an initModel that has left its critical section still has the pointer to
\* its context, which has been deleted
C14_WitnessDangling ==
    \E t \in Threads :
       /\ pc[t] = "initModel_ret"
       /\ ctx[t] # NullCtx
       /\ heap[ctx[t]].deletes = 1

(* ---- C15 ---- *)
\* initModel has just returned, to Java or to nativeLoadModel
LastIsInit == LastIs("initModel")

\* C15 as claimed: the counter is one more than the number of handles
\* taken, every handle below the counter is in the table or was in the table
\* until freeModel or the teardown erased it, the table has no handle that
\* was not taken, and at the moment initModel returns h the table maps h to
\* the context this call created.
C15_AllocateAndInsert ==
    /\ g_next_handle = Len(issued) + 1
    /\ \A h \in 1..(g_next_handle - 1) :
          /\ h \in Range(issued)
          /\ h \in DOMAIN g_contexts \/ h \in DOMAIN removed
    /\ \A h \in DOMAIN g_contexts : h \in 1..(g_next_handle - 1)
    /\ LastIsInit =>
          LET h == last.call.handle
          IN  /\ last.ret = h
              /\ h \in DOMAIN g_contexts
              /\ heap[g_contexts[h]] = ModelContext(last.call.path)

\* C15: in every state other threads can see, the counter is one more than
\* the number of handles taken, every handle below the counter is in the
\* table or was in the table until freeModel or the teardown erased it, and
\* the table has no handle that was not taken; when initModel has left its
\* critical section and until it returns, the table maps the handle it took
\* to the context this call created, alive, with the path of this call and
\* under no other handle, unless freeModel or the teardown has erased the
\* handle since the release of the mutex, and the same holds at the moment
\* initModel returns h.
C15_InsertedUnderLock ==
    /\ g_next_handle = Len(issued) + 1
    /\ \A h \in 1..(g_next_handle - 1) :
          /\ h \in Range(issued)
          /\ h \in DOMAIN g_contexts \/ h \in DOMAIN removed
    /\ \A h \in DOMAIN g_contexts : h \in 1..(g_next_handle - 1)
    /\ \A t \in Threads :
          pc[t] = "initModel_ret" =>
             LET h == call[t].handle
             IN  /\ h \in Range(issued)
                 /\ h \notin DOMAIN removed =>
                       /\ h \in DOMAIN g_contexts
                       /\ g_contexts[h] = ctx[t]
                       /\ heap[ctx[t]] = ModelContext(call[t].path)
                       /\ \A k \in DOMAIN g_contexts \ {h} :
                             g_contexts[k] # g_contexts[h]
    /\ LastIsInit =>
          LET h == last.call.handle
          IN  /\ last.ret = h
              /\ h \in Range(issued)
              /\ h \notin DOMAIN removed =>
                    /\ h \in DOMAIN g_contexts
                    /\ heap[g_contexts[h]] = ModelContext(last.call.path)
                    /\ \A k \in DOMAIN g_contexts \ {h} :
                          g_contexts[k] # g_contexts[h]
    /\ LastIs("nativeLoadModel") =>
          /\ last.call.handle \in Range(issued)
          /\ last.ret = InitResult(last.call.handle)

\* two initModel calls overlapped: the context created second was inserted
\* first, and both are registered when the second call returns
C15_Witness ==
    /\ LastIsInit
    /\ last.call.handle = Len(heap)
    /\ Len(heap) > 1
    /\ DOMAIN g_contexts = 1..Len(heap)
    /\ g_contexts[last.call.handle] < g_contexts[Min(DOMAIN g_contexts)]

\* initModel has returned a handle that freeModel erased between the
\* release of the mutex and the return
C15_WitnessErased ==
    /\ LastIsInit
    /\ last.ret \in DOMAIN removed
    /\ removed[last.ret] = "freeModel"

(* ---- C16 ---- *)
\* C16: in every interleaving of the teardown with initModel (and all other
\* entry points), a context is in exactly one of three conditions: created
\* and waiting to be inserted (alive, not in the table), in the table and
\* alive, or out of the table and deleted once; and a handle that was taken
\* is either in the table or erased.  So when the teardown returns, the
\* handles it found in the table are erased by it and not registered, and
\* what the table holds was inserted after it and is alive, while a context
\* whose initModel had not reached its critical section is untouched; and
\* when an initModel returns a handle the teardown has not erased, its
\* context is in the table and alive.
C16_TeardownAtomic ==
    /\ \A p \in DOMAIN heap :
          IF p \in InFlight
            THEN heap[p].deletes = 0 /\ p \notin Registered
            ELSE \/ p \in Registered /\ heap[p].deletes = 0
                 \/ p \notin Registered /\ heap[p].deletes = 1
    /\ \A h \in Range(issued) :
          (h \in DOMAIN g_contexts) # (h \in DOMAIN removed)
    /\ \A t \in Threads :
          pc[t] = "nativeUnloadModel_ret" =>
             \A h \in call[t].present :
                /\ h \notin DOMAIN g_contexts
                /\ h \in DOMAIN removed
                /\ removed[h] = "nativeUnloadModel"
    /\ LastIsTeardown =>
          /\ \A h \in last.call.present :
                /\ h \notin DOMAIN g_contexts
                /\ h \in DOMAIN removed
                /\ removed[h] = "nativeUnloadModel"
          /\ \A h \in DOMAIN g_contexts :
                /\ h \notin last.call.present
                /\ heap[g_contexts[h]].deletes = 0
    /\ (LastIsInit /\ last.call.handle \notin DOMAIN removed) =>
          /\ last.call.handle \in DOMAIN g_contexts
          /\ heap[g_contexts[last.call.handle]].deletes = 0

\* the teardown has returned after deleting a context while an initModel
\* that had created its context is waiting for the mutex
C16_Witness ==
    /\ LastIsTeardown
    /\ last.call.present # {}
    /\ \E h \in DOMAIN removed : removed[h] = "nativeUnloadModel"
    /\ \E t \in Threads : pc[t] = "initModel_lock" /\ ctx[t] \in InFlight
    /\ g_contexts_mutex = NoThread

\* an initModel that inserted after the teardown's critical section has
\* returned, the teardown has returned before it, and its context is
\* registered and alive
C16_WitnessAfter ==
    /\ LastIsInit
    /\ last.call.handle \in DOMAIN g_contexts
    /\ \E h \in DOMAIN removed : removed[h] = "nativeUnloadModel"
    /\ \A t \in Threads : pc[t] = "idle"

(* ---- C17 ---- *)
\* C17: generate(h, prompt) returns either the classifier's response or the
\* invalid-context response, as decided by the one check it makes while
\* holding the mutex: if h is in the table at the check the call leaves the
\* critical section and returns the classifier's response for its prompt,
\* whatever happens to the table afterwards; if h is not in the table the
\* call returns the invalid-context response, whatever happens to the table
\* afterwards.  The classification and both returns run without the mutex
\* and neither read nor write the table, the counter or a context.
C17_SingleCheck ==
    /\ [](\A t \in Threads :
            pc[t] \in {"generate_classify", "generate_ret"} => g_contexts_mutex # t)
    /\ [](LastIs("generate") =>
            \/ last.call.classified /\ last.ret = Classify(last.call.prompt)
            \/ ~last.call.classified /\ last.ret = ModelNotLoaded)
    /\ [][\A t \in Threads :
             ( /\ pc[t] = "generate_cs"
               /\ call[t].name = "generate"
               /\ pc'[t] # "generate_cs" )
             => ( /\ g_contexts_mutex = t
                  /\ g_contexts_mutex' = NoThread
                  /\ call'[t] = call[t]
                  /\ UNCHANGED registry
                  /\ IF call[t].handle \in DOMAIN g_contexts
                       THEN pc'[t] = "generate_classify"
                       ELSE pc'[t] = "generate_ret" )]_vars
    /\ [][\A t \in Threads :
             ( /\ pc[t] = "generate_classify"
               /\ call[t].name = "generate"
               /\ pc'[t] # "generate_classify" )
             => ( /\ last'.ret = Classify(call[t].prompt)
                  /\ last'.call.handle = call[t].handle
                  /\ last'.call.classified
                  /\ pc'[t] = "idle"
                  /\ UNCHANGED registry )]_vars
    /\ [][\A t \in Threads :
             ( /\ pc[t] = "generate_ret"
               /\ call[t].name = "generate"
               /\ pc'[t] # "generate_ret" )
             => ( /\ last'.ret = ModelNotLoaded
                  /\ last'.call = call[t]
                  /\ pc'[t] = "idle"
                  /\ UNCHANGED registry )]_vars

\* generate has returned the classifier's response for a handle that was
\* registered when the call began and had been erased when it returned
C17_Witness ==
    /\ LastIs("generate")
    /\ last.call.classified
    /\ last.ret = Classify(last.call.prompt)
    /\ last.call.removedAtCall = ""
    /\ last.call.handle \in DOMAIN removed
    /\ heap[Len(heap)].deletes = 1

\* generate has returned the invalid-context response for a handle that is
\* registered when it returns: it was inserted after the locked check
C17_WitnessInsertedSince ==
    /\ LastIs("generate")
    /\ last.ret = ModelNotLoaded
    /\ last.call.handle \in DOMAIN g_contexts

(* ---- C18 ---- *)
\* a nativeGenerate has just returned, and a handle that was in the table
\* when the call read it is in the table now that it has returned: as an
\* erased handle is never inserted again, that handle was registered during
\* the whole call
StayedRegistered ==
    /\ LastIs("nativeGenerate")
    /\ last.call.present \cap DOMAIN g_contexts # {}

\* C18 as claimed: a nativeGenerate during which a context stayed
\* registered returns neither the "No model loaded..." reply nor the
\* "Error: Model not loaded" reply.
C18_NoErrorWhileRegistered ==
    StayedRegistered => (last.ret # NoModelLoaded /\ last.ret # ModelNotLoaded)

(* ---- C19 ---- *)
\* thread t acquires the mutex: lock() returns
Acquire(t) ==
    /\ (LockGuard(t) \/ initModel_lock(t) \/ generate_lock_nested(t))
    /\ UNCHANGED script

\* thread t takes a step of its call that does not wait for the mutex
Run(t) ==
    /\ \/ initModel_cs(t)
       \/ initModel_ret(t)
       \/ nativeLoadModel_ret(t)
       \/ generate_cs(t)
       \/ generate_ret(t)
       \/ generate_classify(t)
       \/ freeModel_cs(t)
       \/ freeModel_ret(t)
       \/ nativeGenerate_cs(t)
       \/ nativeGenerate_ret(t)
       \/ nativeUnloadModel_cs(t)
       \/ nativeUnloadModel_ret(t)
       \/ nativeIsModelLoaded_cs(t)
       \/ nativeIsModelLoaded_ret(t)
       \/ nativeGetModelInfo_cs(t)
       \/ nativeGetModelInfo_ret(t)
    /\ UNCHANGED script

\* the handle arguments of this scenario: the first handle issued and one
\* that never is
FairHandles == {Min(HandleArgs \ ((-1)..0)), FairInits + 1}

\* Every thread calls any entry point at any time, as often as it likes,
\* with the arguments of this scenario, and goes on with the call it is in.
FairNext ==
    \/ \E t \in Threads :
          /\ Len(heap) < FairInits
          /\ \E name \in {"initModel", "nativeLoadModel"} :
                initModel_new(t, name, StressPath)
          /\ UNCHANGED script
    \/ \E t \in Threads, h \in FairHandles :
          Call(t, "generate", h, P_my_status) /\ UNCHANGED script
    \/ \E t \in Threads, h \in FairHandles :
          Call(t, "freeModel", h, <<>>) /\ UNCHANGED script
    \/ \E t \in Threads, name \in {"nativeGenerate", "nativeGenerateWithCallback"} :
          Call(t, name, 0, P_my_status) /\ UNCHANGED script
    \/ \E t \in Threads,
          name \in {"nativeUnloadModel", "nativeCleanup", "nativeIsModelLoaded",
                    "nativeGetModelInfo"} :
          Call(t, name, 0, <<>>) /\ UNCHANGED script
    \/ \E t \in Threads : LlamaInference_nativeInit(t) /\ UNCHANGED script
    \/ \E t \in Threads : LlamaInference_nativeGetVersion(t) /\ UNCHANGED script
    \/ \E t \in Threads : LlamaInference_nativeIsAvailable(t) /\ UNCHANGED script
    \/ \E t \in Threads : Acquire(t)
    \/ \E t \in Threads : Run(t)

\* Fair scheduling: a thread that can go on with its call does so, and a
\* thread waiting for the mutex takes it when the mutex stays free.  No
\* more is assumed of std::mutex: it promises no order among the threads
\* that wait, so a waiting thread may find the mutex taken again and again.
\* Whether and when a thread makes a call is up to the caller.
SpecFair ==
    /\ Init
    /\ [][FairNext]_vars
    /\ \A t \in Threads : WF_vars(Run(t)) /\ WF_vars(Acquire(t))

\* the positions where a thread holds the mutex
CriticalSections ==
    {"initModel_cs", "generate_cs", "freeModel_cs", "nativeGenerate_cs",
     "nativeUnloadModel_cs", "nativeIsModelLoaded_cs", "nativeGetModelInfo_cs"}

\* thread t is in a call and waits for the mutex
Waiting(t) ==
    \/ pc[t] \in DOMAIN EntryLocks \cup {"initModel_lock"}
    \/ pc[t] = "nativeGenerate_handle" /\ call[t].handle # 0

\* C19 as claimed: under fair scheduling every call in progress, waiting
\* for the mutex or not, returns.
C19_EveryCallReturns ==
    \A t \in Threads : (pc[t] # "idle") ~> (pc[t] = "idle")

\* C19 amended: the thread holding the mutex is in a critical section and
\* every other thread is outside, so a thread that requests the mutex
\* does not hold it; whenever a call is in progress some thread in a call
\* can take a step (no deadlock); under fair scheduling the mutex is free
\* again and again (every path that takes it releases it), and every
\* thread is again and again outside a call or at a request of the mutex
\* (a call that holds the mutex or needs none returns or reaches its next
\* request).  That a waiting call is given the mutex is not claimed.
C19_NoDeadlock ==
    /\ [](\A t \in Threads : (g_contexts_mutex = t) <=> (pc[t] \in CriticalSections))
    /\ [](\A t \in Threads : Waiting(t) => g_contexts_mutex # t)
    /\ []((\E t \in Threads : pc[t] # "idle")
            => \E t \in Threads : ENABLED (Run(t) \/ Acquire(t)))
    /\ []<>(g_contexts_mutex = NoThread)
    /\ \A t \in Threads : []<>(pc[t] = "idle" \/ Waiting(t))

\* a nativeGenerate waits for the mutex of the nested generate and a
\* freeModel waits for the mutex of its lock_guard while neither holds it
\* and the mutex is free, after an initModel through nativeLoadModel
C19_Witness ==
    \E t, u \in Threads :
        /\ pc[t] = "nativeGenerate_handle"
        /\ call[t].handle # 0
        /\ call[t].name = "nativeGenerate"
        /\ pc[u] = "freeModel_lock"
        /\ g_contexts_mutex = NoThread
        /\ issued # <<>>

\* a nativeCleanup holds the mutex in the critical section of
\* nativeUnloadModel while a nativeIsModelLoaded that was called waits for it
C19_WitnessHeld ==
    \E t, u \in Threads :
        /\ g_contexts_mutex = u
        /\ pc[u] = "nativeUnloadModel_cs"
        /\ call[u].name = "nativeCleanup"
        /\ pc[t] = "nativeIsModelLoaded_lock"

(* ---- C20 ---- *)
\* the positions (from 1) of the double quotes of prompt
QuotePositions(prompt) == {i \in 1..Len(prompt) : prompt[i] = "\""}

\* the text strictly between the first two double quotes of prompt, dflt
\* when prompt has fewer than two
TitleOf(prompt, dflt) ==
    LET Q == QuotePositions(prompt)
    IN  IF Cardinality(Q) < 2 THEN dflt
        ELSE LET first == Min(Q)
                 next  == Min(Q \ {first})
             IN  SubSeq(prompt, first + 1, next - 1)

\* C20 as claimed: in the responses of the create_goal, create_task and
\* complete_task rules the title of the data is the text strictly between
\* the first double quote of the prompt as passed and the next one, empty
\* when they are adjacent, and "New Goal", "New Task" or "task" when the
\* prompt has fewer than two double quotes.
C20_TitleBetweenQuotes ==
    (LastIs("generate") /\ last.call.classified) =>
        LET prompt == last.call.prompt
            rule == FirstRule(prompt)
        IN  /\ rule = 1 =>
                   HasTitle(last.ret, Key_goalTitle, TitleOf(prompt, DefaultGoal))
            /\ rule = 2 =>
                   HasTitle(last.ret, Key_taskTitle, TitleOf(prompt, DefaultTask))
            /\ rule = 5 =>
                   HasTitle(last.ret, Key_taskTitle,
                            TitleOf(prompt, DefaultComplete))

\* what the code does: the text between the quotes, or the default, is
\* copied as it is between the double quotes of the title in the response
\* text, so it is the title a reader finds when the prompt has no backslash
TitleCopied ==
    (LastIs("generate") /\ last.call.classified) =>
        LET prompt == last.call.prompt
            rule == FirstRule(prompt)
            goal == TitleOf(prompt, DefaultGoal)
            task == TitleOf(prompt, DefaultTask)
            done == TitleOf(prompt, DefaultComplete)
            plain == \A i \in 1..Len(prompt) : prompt[i] # "\\"
        IN  /\ rule = 1 =>
                 /\ last.ret = CreateGoal_Head \o goal \o CreateGoal_Data
                                  \o goal \o CreateGoal_Tail
                 /\ plain => HasTitle(last.ret, Key_goalTitle, goal)
            /\ rule = 2 =>
                 /\ last.ret = CreateTask_Head \o task \o CreateTask_Data
                                  \o task \o CreateTask_Tail
                 /\ plain => HasTitle(last.ret, Key_taskTitle, task)
            /\ rule = 5 =>
                 /\ last.ret = CompleteTask_Head \o done \o CompleteTask_Tail
                 /\ plain => HasTitle(last.ret, Key_taskTitle, done)

\* the create_task branch has extracted a title with a capital letter from
\* a prompt with three double quotes
TitleCopied_Witness ==
    /\ LastIs("generate")
    /\ last.call.classified
    /\ HasAction(last.ret, A_create_task)
    /\ Cardinality(QuotePositions(last.call.prompt)) > 2
    /\ HasTitle(last.ret, Key_taskTitle, <<"A","b">>)

\* the complete_task branch has answered with a text that is no JSON: the
\* title is one backslash
TitleCopied_WitnessNoJson ==
    /\ LastIs("generate")
    /\ last.call.classified
    /\ FirstRule(last.call.prompt) = 5
    /\ TitleOf(last.call.prompt, DefaultComplete) = <<"\\">>
    /\ Json(last.ret).kind = "none"

\* the complete_task branch has answered with a JSON text whose title is
\* one backslash for a prompt with two between its quotes
TitleCopied_WitnessEscape ==
    /\ LastIs("generate")
    /\ last.call.classified
    /\ TitleOf(last.call.prompt, DefaultComplete) = <<"\\", "\\">>
    /\ HasTitle(last.ret, Key_taskTitle, <<"\\">>)

====
